---- MODULE Spec2Model ----
(***************************************************************************)
(* Behavioural-learning core of Loesoe: the learning_events table, the two *)
(* pattern derivers (api.learning.aggregator and api.routes.events), the   *)
(* learning_patterns upsert, and the composite "slimheidsmeter" scorer.    *)
(*                                                                         *)
(* Numbers.  Python floats are modelled as exact fixed-point integers:     *)
(*   - a pattern confidence c is held as 100*c (hundredths);               *)
(*   - time is an integer count of minutes (pipeline) or hours (scorer).   *)
(***************************************************************************)
EXTENDS Integers, Sequences, FiniteSets, TLC

VARIABLES
    clock,              \* utcnow(): the wall clock, in minutes
    learning_events,    \* table learning_events, in insertion order
    learning_patterns,  \* table learning_patterns, a set of rows
    pc,                 \* per request: where the derive handler stands
    endpoint,           \* per request: which derive endpoint serves it
    events,             \* per request: local `events` (the fetched slice)
    patterns,           \* per request: local `patterns` (derive's result)
    written,            \* per request: local `n` of upsert_patterns
    lastWrite,          \* history: per key, the row of the last upsert statement
    run_user,           \* per request: query parameter user_id of the run ("" if absent)
    writers,            \* history: per key, the user_id filters of the runs that wrote it
    batch,              \* deriver check: the list handed to the deriver
    batchNow,           \* deriver check: utcnow() during that call
    derived,            \* deriver check: the returned list of patterns
    deriver,            \* deriver check: which implementation ran
    modules_raw,        \* scorer: argument modules_raw
    self_learning_raw,  \* scorer: argument self_learning_raw
    last_session_raw,   \* scorer: argument last_session_raw
    scoreNow,           \* scorer: datetime.now(timezone.utc), in hours
    modules_score,      \* scorer: local modules_score, a fraction num/den of points
    self_learning_score, \* scorer: local self_learning_score, in tenths of a point
    usage_score,        \* scorer: local usage_score, in points
    slimheidsmeter,     \* scorer: the value returned, in tenths
    scored,             \* scorer: whether calculate_slimheidsmeter has returned
    none_args,          \* scorer: the arguments that are None
    score_raised,       \* scorer: whether calculate_slimheidsmeter has raised
    dash_in,            \* dashboard: what a GET /dashboard request finds on the server
    payload,            \* dashboard: the DashboardPayload returned
    heap,               \* registry: the dicts alive, heap[1] the one bound to _registry
    booted,             \* registry: whether api.ml.registry has been imported
    boot_raised,        \* registry: whether that import raised
    defaults,           \* history: what happened to each default module at import
    returned,           \* registry: the references get_registry() handed to callers
    ops,                \* history: calls made after the import
    last_op,            \* history: the last call
    last_arg,           \* history: the module passed to the last register()
    last_raised,        \* history: whether the last register() raised
    run_exit,           \* run_once: how main ended
    run_results,        \* run_once: the results computed, in order
    run_missing,        \* run_once: local `missing`
    ctx_patterns,       \* ML modules: the list ctx.patterns
    ml_clock,           \* ML modules: datetime.now(timezone.utc)
    ml_results,         \* history: the compute calls made, with their results
    slice,              \* summary: the events fetch_events returned
    summary_out,        \* summary: what aggregate_summary returned
    fx_in,              \* scoring: the (message, history) score_message is called with
    fx_clock,           \* scoring: datetime.utcnow()
    fx_out              \* history: what each call of score_message returned

pipeVars == <<clock, learning_events, learning_patterns, pc, endpoint, events,
              patterns, written, lastWrite, run_user, writers>>
deriveVars == <<batch, batchNow, derived, deriver>>
scoreVars == <<modules_raw, self_learning_raw, last_session_raw, scoreNow, modules_score,
               self_learning_score, usage_score, slimheidsmeter, scored, none_args,
               score_raised>>
dashVars == <<dash_in, payload>>
regVars == <<heap, booted, boot_raised, defaults, returned, ops, last_op, last_arg,
             last_raised, run_exit, run_results, run_missing>>
mlVars == <<ctx_patterns, ml_clock, ml_results>>
sumVars == <<slice, summary_out>>
fxVars == <<fx_in, fx_clock, fx_out>>
vars == <<pipeVars, deriveVars, scoreVars, dashVars, regVars, mlVars, sumVars, fxVars>>

-----------------------------------------------------------------------------
(* Small helpers *)

Min(a, b) == IF a <= b THEN a ELSE b
Max(a, b) == IF a >= b THEN a ELSE b

\* Python None for a timestamp (created_at may be absent from an event dict)
NULL == 0 - 1

Rev(s) == [i \in 1..Len(s) |-> s[Len(s) + 1 - i]]

Head_n(s, n) == SubSeq(s, 1, Min(n, Len(s)))

Repeat(x, n) == [i \in 1..n |-> x]

-----------------------------------------------------------------------------
(* Events *)

\* an event dict as fetch_events returns it (the fields the core reads)
Event(ts, uid, sid, et, tags, action) ==
    [created_at |-> ts, user_id |-> uid, session_id |-> sid,
     event_type |-> et, tags |-> tags, action |-> action]

\* has_tag(e, wanted): wanted in (e.get("tags") or [])
has_tag(e, wanted) == \E i \in 1..Len(e.tags) : e.tags[i] = wanted

\* is_type(e, wanted): (e.get("event_type") or "") == wanted
is_type(e, wanted) == e.event_type = wanted

-----------------------------------------------------------------------------
(* Patterns *)

Pattern(subject, pattern_type, key, value, confidence, evidence, last_seen) ==
    [subject |-> subject, pattern_type |-> pattern_type, key |-> key,
     value |-> value, confidence |-> confidence, evidence |-> evidence,
     last_seen |-> last_seen]

\* the unique key of learning_patterns: ON CONFLICT (subject, pattern_type, key)
KeyOf(p) == <<p.subject, p.pattern_type, p.key>>

ExplainKey == <<"user", "preference", "explain_level">>
SearchKey == <<"user", "habit", "tool_usage:search">>
FrictionKey == <<"user", "anomaly", "interaction:high_friction">>
PatternKeys == {ExplainKey, SearchKey, FrictionKey}

-----------------------------------------------------------------------------
(* api/learning/aggregator.py: derive_patterns *)

\* sum(1 for e in events if ...) throughout: the number of positions that match
ask_explain_A(evs) ==
    Cardinality({i \in 1..Len(evs) :
        is_type(evs[i], "ask_explain") \/ has_tag(evs[i], "ask_explain")})

search_use_A(evs) ==
    Cardinality({i \in 1..Len(evs) :
        has_tag(evs[i], "tool:search") \/ evs[i].action = "search"})

friction_A(evs) ==
    Cardinality({i \in 1..Len(evs) :
        \/ is_type(evs[i], "correction") \/ is_type(evs[i], "frustration")
        \/ has_tag(evs[i], "correction") \/ has_tag(evs[i], "frustration")})

\* the same line without its ceiling
explain_conf_unclamped(n) == 55 + (n - 4) * 8

\* conf = min(0.95, 0.55 + (ask_explain - 4) * 0.08), in hundredths
explain_conf(n) == Min(95, 55 + (n - 4) * 8)
\* conf = min(0.92, 0.50 + (search_use - 5) * 0.07), in hundredths
search_conf(n) == Min(92, 50 + (n - 5) * 7)
\* conf = min(0.90, 0.60 + (friction - 6) * 0.05), in hundredths
friction_conf(n) == Min(90, 60 + (n - 6) * 5)

explain_rule_A(evs, now) ==
    LET n == ask_explain_A(evs) IN
    IF n >= 4
    THEN << Pattern("user", "preference", "explain_level", [level |-> "high"],
                    explain_conf(n),
                    [event_type_or_tag |-> "ask_explain", count |-> n, threshold |-> 4],
                    now) >>
    ELSE << >>

search_rule_A(evs, now) ==
    LET n == search_use_A(evs) IN
    IF n >= 5
    THEN << Pattern("user", "habit", "tool_usage:search", [count |-> n],
                    search_conf(n),
                    [signals |-> <<"tool:search", "payload.action=search">>,
                     count |-> n, threshold |-> 5],
                    now) >>
    ELSE << >>

friction_rule_A(evs, now) ==
    LET n == friction_A(evs) IN
    IF n >= 6
    THEN << Pattern("user", "anomaly", "interaction:high_friction", [count |-> n],
                    friction_conf(n),
                    [signals |-> <<"correction", "frustration">>,
                     count |-> n, threshold |-> 6],
                    now) >>
    ELSE << >>

derive_patterns(evs, now) ==
    explain_rule_A(evs, now) \o search_rule_A(evs, now) \o friction_rule_A(evs, now)

-----------------------------------------------------------------------------
(* api/routes/events.py: _derive_patterns *)

ask_explain_B(evs) ==
    Cardinality({i \in 1..Len(evs) :
        \/ is_type(evs[i], "ask_explain") \/ has_tag(evs[i], "ask_explain")
        \/ has_tag(evs[i], "pref:explain")})

IsSearch(e) == has_tag(e, "tool:search") \/ e.action = "search"

search_use_B(evs) == Cardinality({i \in 1..Len(evs) : IsSearch(evs[i])})

\* the loop's last_seen: the greatest truthy created_at of the matching events
RECURSIVE search_last_seen_B(_, _)
search_last_seen_B(evs, acc) ==
    IF evs = << >> THEN acc
    ELSE LET e == Head(evs)
             ts == e.created_at
             nxt == IF IsSearch(e) /\ ts # NULL /\ (acc = NULL \/ ts > acc)
                    THEN ts ELSE acc
         IN search_last_seen_B(Tail(evs), nxt)

friction_B(evs) ==
    Cardinality({i \in 1..Len(evs) :
        \/ is_type(evs[i], "correction") \/ is_type(evs[i], "frustration")
        \/ has_tag(evs[i], "correction") \/ has_tag(evs[i], "frustration")
        \/ has_tag(evs[i], "anomaly:friction")})

explain_rule_B(evs, now) ==
    LET n == ask_explain_B(evs) IN
    IF n >= 4
    THEN << Pattern("user", "preference", "explain_level", [level |-> "high"],
                    explain_conf(n),
                    [count |-> n, threshold |-> 4,
                     signals |-> <<"ask_explain", "pref:explain">>],
                    now) >>
    ELSE << >>

search_rule_B(evs, now) ==
    LET n == search_use_B(evs)
        last_seen == search_last_seen_B(evs, NULL)
    IN
    IF n >= 5
    THEN << Pattern("user", "habit", "tool_usage:search", [count |-> n],
                    search_conf(n),
                    [count |-> n, threshold |-> 5,
                     signals |-> <<"tool:search", "payload.action=search">>],
                    IF last_seen # NULL THEN last_seen ELSE now) >>
    ELSE << >>

friction_rule_B(evs, now) ==
    LET n == friction_B(evs) IN
    IF n >= 6
    THEN << Pattern("user", "anomaly", "interaction:high_friction", [count |-> n],
                    friction_conf(n),
                    [count |-> n, threshold |-> 6,
                     signals |-> <<"correction", "frustration">>],
                    now) >>
    ELSE << >>

_derive_patterns(evs, now) ==
    explain_rule_B(evs, now) \o search_rule_B(evs, now) \o friction_rule_B(evs, now)

\* the deriver behind each endpoint: POST /learning/derive, POST /events/learning/derive
Derive(impl, evs, now) ==
    IF impl = "learning" THEN derive_patterns(evs, now) ELSE _derive_patterns(evs, now)

Endpoints == {"learning", "events"}

-----------------------------------------------------------------------------
(* modules/status_slimheidsmeter.py *)
(* Text that the code searches (a mood) is a sequence of one-character     *)
(* strings; text it only compares (a module key or status) is a string.    *)

MAX_MODULE_POINTS == 35
MAX_SELF_POINTS == 50
MAX_USAGE_POINTS == 15

\* dict.get on a key the dict lacks
MISSING == "<missing>"

UpperCase == <<"A", "B", "C", "D", "E", "F", "G", "H", "I", "J", "K", "L", "M", "N", "O", "P", "Q", "R", "S", "T", "U", "V", "W", "X", "Y", "Z">>
LowerCase == <<"a", "b", "c", "d", "e", "f", "g", "h", "i", "j", "k", "l", "m", "n", "o", "p", "q", "r", "s", "t", "u", "v", "w", "x", "y", "z">>

\* str.lower() on one character
LowerChar(c) ==
    IF \E i \in 1..Len(UpperCase) : UpperCase[i] = c
    THEN LowerCase[CHOOSE i \in 1..Len(UpperCase) : UpperCase[i] = c]
    ELSE c

\* str.lower()
Lower(s) == [i \in 1..Len(s) |-> LowerChar(s[i])]

IsSpace(c) == c \in {" ", "\t", "\n"}

\* str.strip()
RECURSIVE StripText(_)
StripText(s) ==
    IF s = << >> THEN s
    ELSE IF IsSpace(Head(s)) THEN StripText(Tail(s))
    ELSE IF IsSpace(s[Len(s)]) THEN StripText(SubSeq(s, 1, Len(s) - 1))
    ELSE s

\* t in mood
Contains(mood, t) ==
    \E i \in 1..(Len(mood) - Len(t) + 1) : SubSeq(mood, i, i + Len(t) - 1) = t

\* str.lower() on the module statuses the model uses
LowerStatus(st) ==
    CASE st = "OK" -> "ok"
      [] st = "Warn" -> "warn"
      [] st = "OFF" -> "off"
      [] OTHER -> st

core_keys ==
    {"auth", "database", "database_conn", "dashboard_api", "model_router", "chat_api",
     "zelflerend_geheugen"}

\* the same part with every module weighted 1.0
ModulePart_unweighted(m) ==
    LET status == LowerStatus(IF m.status = "" THEN "off" ELSE m.status)
    IN IF status = "ok" THEN 20
       ELSE IF status = "warn" THEN 10
       ELSE 0

\* weight * (1 | 0.5 | 0) of one module, times 20
ModulePart(m) ==
    LET weight == IF m.key \in core_keys THEN 13 ELSE 10
        status == LowerStatus(IF m.status = "" THEN "off" ELSE m.status)
    IN IF status = "ok" THEN weight * 2
       ELSE IF status = "warn" THEN weight
       ELSE 0

\* the loop `for m in modules: score += ...`: the sum over modules[lo..hi]
RECURSIVE SumParts(_, _, _)
SumParts(modules, lo, hi) ==
    IF lo > hi THEN 0
    ELSE IF lo = hi THEN ModulePart(modules[lo])
    ELSE LET mid == (lo + hi) \div 2
         IN SumParts(modules, lo, mid) + SumParts(modules, mid + 1, hi)

ModuleParts(modules) == SumParts(modules, 1, Len(modules))

\* the same sum returned without min(score, MAX_MODULE_POINTS)
_score_modules_unclamped(modules) ==
    IF modules = << >> THEN [num |-> 0, den |-> 1]
    ELSE [num |-> MAX_MODULE_POINTS * ModuleParts(modules), den |-> 20 * Len(modules)]

\* _score_modules: base_per_module = 35 / len(modules); the score is num/den points
_score_modules(modules) ==
    IF modules = << >> THEN [num |-> 0, den |-> 1]
    ELSE LET den == 20 * Len(modules)
             num == MAX_MODULE_POINTS * ModuleParts(modules)
         IN [num |-> Min(num, MAX_MODULE_POINTS * den), den |-> den]

positieve_triggers ==
    {<<"r", "u", "s", "t", "i", "g">>,
     <<"k", "a", "l", "m">>,
     <<"r", "e", "l", "a", "x", "e", "d">>,
     <<"b", "l", "i", "j">>,
     <<"t", "e", "v", "r", "e", "d", "e", "n">>,
     <<"g", "e", "m", "o", "t", "i", "v", "e", "e", "r", "d">>,
     <<"g", "e", "f", "o", "c", "u", "s", "t">>,
     <<"i", "n", " ", "b", "a", "l", "a", "n", "s">>,
     <<"c", "h", "i", "l", "l">>}

negatieve_triggers ==
    {<<"s", "t", "r", "e", "s", "s">>,
     <<"g", "e", "s", "t", "r", "e", "s", "t">>,
     <<"o", "v", "e", "r", "p", "r", "i", "k", "k", "e", "l", "d">>,
     <<"b", "o", "o", "s">>,
     <<"b", "a", "n", "g">>,
     <<"a", "n", "g", "s", "t", "i", "g">>,
     <<"o", "n", "r", "u", "s", "t", "i", "g">>,
     <<"m", "o", "e">>,
     <<"o", "p">>,
     <<"o", "v", "e", "r", "w", "h", "e", "l", "m", "e", "d">>}

\* _score_emotion, in tenths of a point
_score_emotion(last_mood) ==
    IF last_mood = << >> THEN 0
    ELSE LET mood == Lower(StripText(last_mood)) IN
         IF \E t \in positieve_triggers : Contains(mood, t) THEN 40
         ELSE IF \E t \in negatieve_triggers : Contains(mood, t) THEN 0 - 40
         ELSE 0

\* _score_self_learning, in tenths of a point; avg_score is << >> (None) or <<a>>
\* with a the average in tenths
_score_self_learning(sl) ==
    LET base == IF sl.has_data THEN 100 ELSE 0
        avg == IF sl.avg_score = << >> THEN 0
               ELSE 3 * Max(0, Min(sl.avg_score[1], 100))
        prefs == Max(0, Min(sl.preferences_count, 10))
        emo_bonus == _score_emotion(sl.last_mood)
        score == base + avg + 10 * prefs + emo_bonus
    IN Max(0, Min(score, 10 * MAX_SELF_POINTS))

\* _score_usage, in points; last_action is << >> (None) or <<t>>, t in hours
_score_usage(last_session, now) ==
    IF last_session.last_action = << >> THEN 0
    ELSE LET hours == now - last_session.last_action[1]
             recent == IF hours <= 6 THEN 13
                       ELSE IF hours <= 24 THEN 10
                       ELSE IF hours <= 72 THEN 7
                       ELSE IF hours <= 168 THEN 4
                       ELSE 0
             score == IF last_session.estimated_dev_minutes >= 60
                      THEN Min(recent + 2, MAX_USAGE_POINTS) ELSE recent
         IN Min(score, MAX_USAGE_POINTS)

LastSessionStatus(last_action, est) ==
    [last_action |-> last_action, estimated_dev_minutes |-> est]

\* the loop stopping at the first user that has a parseable last_action
TargetUser_first(users, i, target) ==
    IF \E j \in 1..Len(users) : users[j].last_action.kind = "ok"
    THEN CHOOSE j \in 1..Len(users) :
             /\ users[j].last_action.kind = "ok"
             /\ \A k \in 1..(j - 1) : users[k].last_action.kind # "ok"
    ELSE 0

\* the loop of _extract_last_session: the first user among those with the greatest
\* parseable last_action; 0 when no user has one
RECURSIVE TargetUser(_, _, _)
TargetUser(users, i, target) ==
    IF i > Len(users) THEN target
    ELSE LET ts == users[i].last_action IN
         IF ts.kind # "ok" THEN TargetUser(users, i + 1, target)
         ELSE IF target = 0 \/ ts.at > users[target].last_action.at
              THEN TargetUser(users, i + 1, i)
              ELSE TargetUser(users, i + 1, target)

\* _extract_last_session; users is the dict's values in insertion order, a
\* last_action is missing/empty ("none"), unparseable ("bad") or a time ("ok")
_extract_last_session(last_session) ==
    LET users == last_session.users IN
    IF users = << >> THEN LastSessionStatus(<< >>, 0)
    ELSE LET target == TargetUser(users, 1, 0) IN
         IF target = 0
         THEN LET first == users[1]
                  dt == IF first.last_action.kind = "ok"
                        THEN <<first.last_action.at>> ELSE << >>
              IN LastSessionStatus(dt, first.estimated_dev_minutes)
         ELSE LastSessionStatus(<<users[target].last_action.at>>,
                                users[target].estimated_dev_minutes)

\* round(a / b) to the nearest integer, ties to even
RoundHalfEven(a, b) ==
    LET q == a \div b
        r == a % b
    IN IF 2 * r < b THEN q
       ELSE IF 2 * r > b THEN q + 1
       ELSE IF q % 2 = 0 THEN q ELSE q + 1

\* ModuleStatus(key=m.get("key", ""), status=str(m.get("status", "off")).lower())
ModuleStatus(m) ==
    [key |-> IF m.key = MISSING THEN "" ELSE m.key,
     status |-> LowerStatus(IF m.status = MISSING THEN "off" ELSE m.status)]

\* dict.get(key, default) on the self-learning map, a record that carries the
\* keys the dict has
Get(d, key, default) == IF key \in DOMAIN d THEN d[key] ELSE default

\* SelfLearningStatus(has_data=bool(...get("has_data", False)), avg_score=...get(
\* "avg_score"), preferences_count=int(...get("preferences_count", 0) or 0),
\* last_mood=...get("last_mood"))
SelfLearningStatus(sl_raw) ==
    [has_data |-> Get(sl_raw, "has_data", FALSE),
     avg_score |-> Get(sl_raw, "avg_score", << >>),
     preferences_count |-> Get(sl_raw, "preferences_count", 0),
     last_mood |-> Get(sl_raw, "last_mood", << >>)]

\* what calculate_slimheidsmeter raises on None arguments: iterating
\* modules_raw (TypeError), self_learning_raw.get (AttributeError);
\* last_session_raw is read as `last_session_raw or {}`
Raises(none) == "modules_raw" \in none \/ "self_learning_raw" \in none

\* the three sub-scores and the value calculate_slimheidsmeter returns (in tenths)
calculate_slimheidsmeter(mods_raw, sl_raw, ls_raw, now) ==
    LET modules == [i \in 1..Len(mods_raw) |-> ModuleStatus(mods_raw[i])]
        ls == _extract_last_session(ls_raw)
        ms == _score_modules(modules)
        sls == _score_self_learning(SelfLearningStatus(sl_raw))
        us == _score_usage(ls, now)
        den == 10 * ms.den
        total == 10 * ms.num + sls * ms.den + 10 * us * ms.den
        clamped == Max(0, Min(total, 100 * den))
    IN [modules_score |-> ms, self_learning_score |-> sls, usage_score |-> us,
        total |-> RoundHalfEven(10 * clamped, den)]

-----------------------------------------------------------------------------
(* api/dashboard.py *)

\* calculate_slimheid counting only the ok modules
calculate_slimheid_ok_only(modules) ==
    LET ok == Cardinality({i \in 1..Len(modules) : modules[i].status = "ok"})
        max_score == IF Len(modules) = 0 THEN 1 ELSE Len(modules)
    IN RoundHalfEven(1000 * ok, max_score)

\* calculate_slimheid (V1), in tenths: round((score / max_score) * 100.0, 1) with
\* 1.0 for each ok module and 0.5 for each warn module
calculate_slimheid(modules) ==
    LET ok == Cardinality({i \in 1..Len(modules) : modules[i].status = "ok"})
        warn == Cardinality({i \in 1..Len(modules) : modules[i].status = "warn"})
        max_score == IF Len(modules) = 0 THEN 1 ELSE Len(modules)
    IN RoundHalfEven(1000 * (2 * ok + warn), 2 * max_score)

\* the block of a summary without data
EmptyBlock ==
    [has_data |-> FALSE, avg_score |-> <<0>>, preferences_count |-> 0, last_mood |-> << >>]

\* return None
NoBlock == [raised |-> FALSE, none |-> TRUE, block |-> EmptyBlock]

\* the same function without the try around get_global_self_learning_summary()
_build_self_learning_block_uncaught(summary, user_state) ==
    IF summary.kind = "raises" THEN [raised |-> TRUE, none |-> TRUE, block |-> EmptyBlock]
    ELSE IF summary.kind = "unavailable" THEN NoBlock
    ELSE [raised |-> FALSE, none |-> FALSE,
          block |-> IF ~summary.has_data THEN EmptyBlock
                    ELSE [has_data |-> TRUE, avg_score |-> <<summary.avg_score>>,
                          preferences_count |-> user_state.preferences,
                          last_mood |-> user_state.last_mood]]

\* _build_self_learning_block: None when get_global_self_learning_summary is None
\* ("unavailable") or raises; the keys the scorer reads of the block otherwise
_build_self_learning_block(summary, user_state) ==
    IF summary.kind = "unavailable" THEN NoBlock
    ELSE IF summary.kind = "raises" THEN NoBlock
    ELSE IF ~summary.has_data
         THEN [raised |-> FALSE, none |-> FALSE, block |-> EmptyBlock]
    ELSE [raised |-> FALSE, none |-> FALSE,
          block |-> [has_data |-> TRUE, avg_score |-> <<summary.avg_score>>,
                     preferences_count |-> user_state.preferences,
                     last_mood |-> user_state.last_mood]]

\* the modules list get_dashboard builds from its probes
build_modules(probes) ==
    <<[key |-> "auth", status |-> "ok"],
      [key |-> "database", status |-> IF probes.db_file THEN "ok" ELSE "warn"],
      [key |-> "database_conn", status |-> IF probes.db_conn THEN "ok" ELSE "warn"],
      [key |-> "streaming", status |-> IF probes.sse THEN "ok" ELSE "warn"],
      [key |-> "uploads", status |-> probes.uploads],
      [key |-> "dashboard_api", status |-> "ok"],
      [key |-> "zelflerend_geheugen",
       status |-> IF probes.zelfleren_file THEN "ok" ELSE "warn"]>>

\* str(getattr(current_user, "id", 1))
CurrentUid == "1"

\* user_state["last_action"] = now_iso; users[uid] = user_state
MarkCurrentUser(users, now_iso) ==
    IF \E i \in 1..Len(users) : users[i].uid = CurrentUid
    THEN [i \in 1..Len(users) |->
             IF users[i].uid = CurrentUid
             THEN [users[i] EXCEPT !.last_action = now_iso] ELSE users[i]]
    ELSE Append(users, [uid |-> CurrentUid, last_action |-> now_iso,
                        estimated_dev_minutes |-> 0])

NoPayload ==
    [status |-> 0, slimheidsmeter |-> 0, modules |-> << >>,
     last_session |-> [users |-> << >>], self_learning |-> NoBlock]

DashIdle ==
    /\ dash_in = [probes |-> [db_file |-> FALSE, db_conn |-> FALSE, sse |-> FALSE,
                              uploads |-> "off", zelfleren_file |-> FALSE],
                  last_session |-> [users |-> << >>],
                  summary |-> [kind |-> "unavailable", has_data |-> FALSE, avg_score |-> 0],
                  user_state |-> [preferences |-> 0, last_mood |-> << >>],
                  scorer_loaded |-> FALSE, z_parses |-> FALSE, now |-> 0]
    /\ payload = NoPayload

\* GET /dashboard for an authenticated user
GetDashboard ==
    /\ payload = NoPayload
    /\ LET modules == build_modules(dash_in.probes)
           \* datetime.utcnow().isoformat() + "Z": datetime.fromisoformat reads the
           \* Z suffix from Python 3.11 on and rejects it before
           now_iso == IF dash_in.z_parses THEN [kind |-> "ok", at |-> dash_in.now]
                      ELSE [kind |-> "bad", at |-> 0]
           last_session == [users |-> MarkCurrentUser(dash_in.last_session.users, now_iso)]
           self_learning == _build_self_learning_block(dash_in.summary, dash_in.user_state)
           score == IF dash_in.scorer_loaded /\ ~self_learning.none
                    THEN calculate_slimheidsmeter(modules, self_learning.block,
                                                  last_session, dash_in.now).total
                    ELSE calculate_slimheid(modules)
       IN payload' = IF self_learning.raised
                     THEN [NoPayload EXCEPT !.status = 500]
                     ELSE [status |-> 200, slimheidsmeter |-> score, modules |-> modules,
                           last_session |-> last_session, self_learning |-> self_learning]
    /\ UNCHANGED dash_in

-----------------------------------------------------------------------------
(* api/ml/registry.py, api/ml/run_once.py *)
(* A dict is a function from Names to modules, NoModule where the dict has no  *)
(* such key. Dicts live in `heap` and are used through their index, so that a  *)
(* copy and an alias of a dict differ.                                         *)

\* the name attribute of a module: a string, another value, or none
Str(s) == [type |-> "str", s |-> s]

Module(name, impl, compute) == [name |-> name, impl |-> impl, compute |-> compute]

NoModule == Module([type |-> "none", s |-> ""], "<absent>", "ok")

DummyScoreModule == Module(Str("dummy_score"), "DummyScoreModule", "ok")
ExplainPreferenceScore == Module(Str("explain_preference_score"), "ExplainPreferenceScore", "ok")
PatternsVolumeAnomaly == Module(Str("patterns_volume_anomaly"), "PatternsVolumeAnomaly", "ok")

\* the classes _safe_default_register tries, in order
DefaultFactories == <<DummyScoreModule, ExplainPreferenceScore, PatternsVolumeAnomaly>>

DEFAULT_MODULES == <<"dummy_score", "explain_preference_score", "patterns_volume_anomaly">>

\* the modules callers pass to register(): a nameless one, one whose name is not a
\* string, one with an empty name, a new one whose compute returns None, and one
\* that takes a default module's name and whose compute raises
RegisterIns ==
    {Module([type |-> "none", s |-> ""], "Nameless", "ok"),
     Module([type |-> "int", s |-> "7"], "Numbered", "ok"),
     Module(Str(""), "Blank", "ok"),
     Module(Str("custom"), "Custom", "malformed"),
     Module(Str("dummy_score"), "Faulty", "raises")}

Names == {"dummy_score", "explain_preference_score", "patterns_volume_anomaly", "custom",
          "", "7"}

EmptyDict == [n \in Names |-> NoModule]

\* the dict the module-level name _registry is bound to
RegistryRef == 1
_registry == heap[RegistryRef]

\* register() without the check of the name
register_unchecked(h, module) ==
    [heap |-> [h EXCEPT ![RegistryRef][module.name.s] = module], raised |-> FALSE]

\* register(module): the heap afterwards and whether ValueError was raised
register(h, module) ==
    LET name == module.name IN
    IF name.type # "str" \/ name.s = ""
    THEN [heap |-> h, raised |-> TRUE]
    ELSE [heap |-> [h EXCEPT ![RegistryRef][name.s] = module], raised |-> FALSE]

\* get_registry() returning _registry itself
get_registry_alias(h) == [heap |-> h, ref |-> RegistryRef]

\* get_registry(): dict(_registry) is a new dict
get_registry(h) == [heap |-> Append(h, h[RegistryRef]), ref |-> Len(h) + 1]

\* _try_register() without its try
_try_register_uncaught(h, factory) ==
    IF factory.raises THEN [heap |-> h, raised |-> TRUE]
    ELSE register(h, factory.module)

\* _try_register(factory): whatever factory() or register() raises is swallowed
_try_register(h, factory) ==
    IF factory.raises THEN [heap |-> h, raised |-> FALSE]
    ELSE [heap |-> register(h, factory.module).heap, raised |-> FALSE]

\* what the import of a default module and its factory can do
DefaultOutcomes == {"ok", "import_raises", "factory_raises"}

\* one `try: from .modules... import X; _try_register(X) except Exception: pass`
TryDefault(r, i, outcome) ==
    IF r.raised \/ outcome = "import_raises" THEN r
    ELSE _try_register(r.heap, [raises |-> outcome = "factory_raises",
                                module |-> DefaultFactories[i]])

\* _safe_default_register()
_safe_default_register(h, outcomes) ==
    LET r1 == TryDefault([heap |-> h, raised |-> FALSE], 1, outcomes[1])
        r2 == TryDefault(r1, 2, outcomes[2])
    IN TryDefault(r2, 3, outcomes[3])

\* the loop of main over DEFAULT_MODULES from position i on: compute() raising
\* and _print_result() failing on a result that is no MLResult both leave main
RECURSIVE RunModules(_, _, _, _)
RunModules(reg, i, results, missing) ==
    IF i > Len(DEFAULT_MODULES)
    THEN [results |-> results, missing |-> missing,
          exit |-> IF results = << >> THEN "2" ELSE "0"]
    ELSE LET name == DEFAULT_MODULES[i] IN
         IF reg[name] = NoModule
         THEN RunModules(reg, i + 1, results, Append(missing, name))
         ELSE IF reg[name].compute \in {"raises", "malformed"}
              THEN [results |-> results, missing |-> missing, exit |-> "raised"]
              ELSE RunModules(reg, i + 1,
                              Append(results, [module |-> name, status |-> reg[name].compute]),
                              missing)

\* calls made after the import
MaxOps == 3
\* dicts handed out by get_registry()
MaxMaps == 2

NoRun == run_exit = "none" /\ run_results = << >> /\ run_missing = << >>

RegistryIdle ==
    /\ heap = <<EmptyDict>>
    /\ booted = FALSE
    /\ boot_raised = FALSE
    /\ defaults = << >>
    /\ returned = << >>
    /\ ops = 0
    /\ last_op = "none"
    /\ last_arg = NoModule
    /\ last_raised = FALSE
    /\ NoRun

\* import api.ml.registry: _safe_default_register() at line 74
ImportRegistry ==
    /\ ~booted
    /\ \E outcomes \in [1..3 -> DefaultOutcomes] :
          LET r == _safe_default_register(heap, outcomes)
          IN /\ heap' = r.heap
             /\ boot_raised' = r.raised
             /\ defaults' = outcomes
    /\ booted' = TRUE
    /\ UNCHANGED <<returned, ops, last_op, last_arg, last_raised, run_exit, run_results,
                   run_missing>>

\* the registry can be called: imported, and run_once has not taken the process
Callable == booted /\ ~boot_raised /\ run_exit = "none" /\ ops < MaxOps

Register(m) ==
    /\ Callable
    /\ LET r == register(heap, m)
       IN /\ heap' = r.heap
          /\ last_raised' = r.raised
    /\ last_op' = "register"
    /\ last_arg' = m
    /\ ops' = ops + 1
    /\ UNCHANGED <<booted, boot_raised, defaults, returned, run_exit, run_results,
                   run_missing>>

GetRegistry ==
    /\ Callable
    /\ Len(returned) < MaxMaps
    /\ LET g == get_registry(heap)
       IN /\ heap' = g.heap
          /\ returned' = Append(returned, g.ref)
    /\ last_op' = "get_registry"
    /\ ops' = ops + 1
    /\ UNCHANGED <<booted, boot_raised, defaults, last_arg, last_raised, run_exit,
                   run_results, run_missing>>

\* what a caller does to a dict it got: del d[n], d[n] = m
Edits ==
    {[name |-> "dummy_score", module |-> NoModule],
     [name |-> "explain_preference_score", module |-> Module(Str("custom"), "Custom", "malformed")],
     [name |-> "custom", module |-> Module(Str("custom"), "Custom", "malformed")]}

ModifyReturned(i, e) ==
    /\ Callable
    /\ heap' = [heap EXCEPT ![returned[i]][e.name] = e.module]
    /\ last_op' = "modify"
    /\ ops' = ops + 1
    /\ UNCHANGED <<booted, boot_raised, defaults, returned, last_arg, last_raised,
                   run_exit, run_results, run_missing>>

\* python -m api.ml.run_once: main() from reg = get_registry() to its return
RunOnce ==
    /\ booted /\ ~boot_raised /\ run_exit = "none"
    /\ LET g == get_registry(heap)
           r == RunModules(g.heap[g.ref], 1, << >>, << >>)
       IN /\ heap' = g.heap
          /\ run_results' = r.results
          /\ run_missing' = r.missing
          /\ run_exit' = r.exit
    /\ UNCHANGED <<booted, boot_raised, defaults, returned, ops, last_op, last_arg,
                   last_raised>>

-----------------------------------------------------------------------------
(* api/ml/modules: the three reference modules                                 *)
(* Numbers.  A raw confidence is held in hundredths, a normalized confidence   *)
(* and a score in units of 0.0001, a base score in tenths.                     *)

\* the value under "level": a string, another value, or none
NoLevel == [type |-> "none", s |-> << >>]
StrLevel(s) == [type |-> "str", s |-> s]

\* what json.loads(s) gives: a dict (with its level entry) or no dict at all
NoObj == [ok |-> FALSE, level |-> NoLevel]
Obj(level) == [ok |-> TRUE, level |-> level]

\* the value column of a pattern row: a dict, a string s (obj is then what
\* json.loads(s) returns), or anything else
DictValue(level) == [kind |-> "dict", s |-> << >>, obj |-> Obj(level)]
StrValue(s, obj) == [kind |-> "str", s |-> s, obj |-> obj]
OtherValue == [kind |-> "other", s |-> << >>, obj |-> NoObj]

\* the confidence column: a number v, None, a bool, a string that float() reads
\* as v or rejects, or anything else
Conf(kind, v, parses) == [kind |-> kind, v |-> v, parses |-> parses]

\* a row of learning_patterns as dict(r) of fetch_patterns
PatternRow(id, subject, pattern_type, key, value, confidence) ==
    [id |-> id, subject |-> subject, pattern_type |-> pattern_type, key |-> key,
     value |-> value, confidence |-> confidence]

\* _clamp01(x), where `one` is how the unit of x writes 1.0
_clamp01(x, one) == Max(0, Min(one, x))

\* _to_float(x, default=0.0), in hundredths
_to_float(x) ==
    CASE x.kind = "none" -> 0
      [] x.kind = "bool" -> x.v
      [] x.kind = "num" -> x.v
      [] x.kind = "str" -> IF x.parses THEN x.v ELSE 0
      [] OTHER -> 0

\* _normalize_confidence without the division of percentages
_normalize_confidence_undivided(conf_raw) == _clamp01(100 * _to_float(conf_raw), 10000)

\* _normalize_confidence: hundredths in, units of 0.0001 out
_normalize_confidence(conf_raw) ==
    LET c == _to_float(conf_raw)
    IN _clamp01(IF c > 100 THEN c ELSE 100 * c, 10000)

\* _try_parse_json_object(s)
_try_parse_json_object(value) ==
    LET s == StripText(value.s) IN
    IF ~(s # << >> /\ Head(s) = "{" /\ s[Len(s)] = "}") THEN NoObj
    ELSE value.obj

unknown == <<"u", "n", "k", "n", "o", "w", "n">>

\* `lvl.strip().lower()` if lvl is a non-blank string, else "unknown"
LevelText(lvl) ==
    IF lvl.type = "str" /\ StripText(lvl.s) # << >> THEN Lower(StripText(lvl.s))
    ELSE unknown

\* _extract_level(value)
_extract_level(value) ==
    IF value.kind = "dict" THEN LevelText(value.obj.level)
    ELSE IF value.kind = "str" /\ StripText(value.s) # << >>
         THEN LET obj == _try_parse_json_object(value) IN
              IF obj.ok THEN LevelText(obj.level)
              ELSE Lower(StripText(value.s))
    ELSE unknown

\* _level_to_base, in tenths
_level_to_base(level) ==
    CASE level = <<"h", "i", "g", "h">> -> 10
      [] level = <<"m", "e", "d", "i", "u", "m">> -> 6
      [] level = <<"l", "o", "w">> -> 2
      [] OTHER -> 0

\* _find_explain_level_pattern: the index of the first match, 0 for None
_find_explain_level_pattern(ps) ==
    LET hits == {i \in 1..Len(ps) :
                    ps[i].pattern_type = "preference" /\ ps[i].key = "explain_level"}
    IN IF hits = {} THEN 0 ELSE CHOOSE i \in hits : \A j \in hits : i <= j

\* an MLResult by the fields the callers read; explained tells that explain.text
\* is not empty
MLResult(module, computed_at_utc, kind, status, score, flags, explained) ==
    [module |-> module, computed_at_utc |-> computed_at_utc, kind |-> kind,
     status |-> status, score |-> score, flags |-> flags, explained |-> explained]

\* an MLContext: user_id, and the list of pattern dicts
MLContext(user_id, ps) == [user_id |-> user_id, patterns |-> ps]

\* DummyScoreModule.compute(ctx): the result, and ctx.patterns as the call leaves it
DummyScoreModule_compute(ctx, now) ==
    [result |-> MLResult("dummy_score", now, "score", "ok", 0, [active |-> FALSE], TRUE),
     patterns |-> ctx.patterns]

\* a compute that takes the pattern it used out of the list
ExplainPreferenceScore_compute_consuming(ctx, now) ==
    LET i == _find_explain_level_pattern(ctx.patterns) IN
    [result |-> MLResult("explain_preference_score", now, "score",
                         IF i = 0 THEN "warn" ELSE "ok", 0,
                         [has_preference |-> i # 0], TRUE),
     patterns |-> IF i = 0 THEN ctx.patterns
                  ELSE SubSeq(ctx.patterns, 1, i - 1)
                       \o SubSeq(ctx.patterns, i + 1, Len(ctx.patterns))]

\* ExplainPreferenceScore.compute(ctx)
ExplainPreferenceScore_compute(ctx, now) ==
    LET i == _find_explain_level_pattern(ctx.patterns) IN
    IF i = 0
    THEN [result |-> MLResult("explain_preference_score", now, "score", "warn", 0,
                              [has_preference |-> FALSE], TRUE),
          patterns |-> ctx.patterns]
    ELSE LET p == ctx.patterns[i]
             conf == _normalize_confidence(p.confidence)
             level == _extract_level(p.value)
             base == _level_to_base(level)
             \* round(_clamp01(base * conf), 4): the product is in units of 0.00001
             score == RoundHalfEven(_clamp01(base * conf, 100000), 10)
         IN [result |-> MLResult("explain_preference_score", now, "score", "ok", score,
                                 [has_preference |-> TRUE,
                                  pref_high |-> level = <<"h", "i", "g", "h">>,
                                  pref_medium |-> level = <<"m", "e", "d", "i", "u", "m">>,
                                  pref_low |-> level = <<"l", "o", "w">>], TRUE),
             patterns |-> ctx.patterns]

MIN_EXPECTED == 1
HIGH_VOLUME == 100

\* PatternsVolumeAnomaly.compute(ctx)
PatternsVolumeAnomaly_compute(ctx, now) ==
    LET total == Len(ctx.patterns)
        low == total < MIN_EXPECTED
        high == total >= HIGH_VOLUME
    IN [result |-> MLResult("patterns_volume_anomaly", now, "flags",
                            IF low \/ high THEN "warn" ELSE "ok",
                            IF low THEN 0 ELSE IF high THEN 10000 ELSE 5000,
                            [low_volume |-> low, high_volume |-> high,
                             normal_volume |-> ~low /\ ~high], TRUE),
        patterns |-> ctx.patterns]

\* reg[name].compute(ctx) for the class behind a registered module
compute(module, ctx, now) ==
    CASE module.impl = "DummyScoreModule" -> DummyScoreModule_compute(ctx, now)
      [] module.impl = "ExplainPreferenceScore" -> ExplainPreferenceScore_compute(ctx, now)
      [] module.impl = "PatternsVolumeAnomaly" -> PatternsVolumeAnomaly_compute(ctx, now)

-----------------------------------------------------------------------------
(* modules/zelflerend/scoring.py                                               *)
(* Numbers.  A float is held as an exact fraction [num, den] until it is       *)
(* rounded; a rounded score is held in thousandths.  A text is a sequence of   *)
(* characters; "<euro>" and "<e-acute>" stand for one character each.          *)

SCORE_VERSION == 1

\* a message: a str, or None
Msg(text) == [is_none |-> FALSE, text |-> text]
NoneMsg == [is_none |-> TRUE, text |-> << >>]

Frac(num, den) == [num |-> num, den |-> den]

\* round(x, 3) of a fraction x, in thousandths
Round3(x) == RoundHalfEven(1000 * x.num, x.den)

\* _safe_div(a, b)
_safe_div(a, b) == IF b = 0 THEN Frac(0, 1) ELSE Frac(a, b)

\* _normalize(value, min_v, max_v) over fractions
_normalize(value, min_v, max_v) ==
    LET span == max_v.num * min_v.den - min_v.num * max_v.den
        v == Frac((value.num * min_v.den - min_v.num * value.den) * max_v.den,
                  span * value.den)
    IN IF span = 0 THEN Frac(0, 1)
       ELSE IF v.num <= 0 THEN Frac(0, 1)
       ELSE IF v.num >= v.den THEN Frac(1, 1)
       ELSE v

Digits == <<"0", "1", "2", "3", "4", "5", "6", "7", "8", "9">>
IsDigit(c) == \E i \in 1..Len(Digits) : Digits[i] = c
IsUpper(c) == \E i \in 1..Len(UpperCase) : UpperCase[i] = c
IsLetter(c) == c = "<e-acute>" \/ \E i \in 1..Len(LowerCase) : LowerCase[i] = LowerChar(c)

\* the character classes \w and \d of the regular expressions
InClass(c, cls) ==
    IF cls = "w" THEN IsLetter(c) \/ IsDigit(c) \/ c = "_" ELSE IsDigit(c)

\* re.findall of a maximal-run pattern (\w+ or \d+) over the text s
RECURSIVE FindAll(_, _)
FindAll(s, cls) ==
    IF s = << >> THEN << >>
    ELSE IF ~InClass(Head(s), cls) THEN FindAll(Tail(s), cls)
    ELSE LET stops == {i \in 1..Len(s) : ~InClass(s[i], cls)}
             n == IF stops = {} THEN Len(s)
                  ELSE (CHOOSE i \in stops : \A j \in stops : i <= j) - 1
         IN <<SubSeq(s, 1, n)>> \o FindAll(SubSeq(s, n + 1, Len(s)), cls)

\* _to_words(text)
_to_words(text) == FindAll(Lower(text), "w")

\* int(n) of a run of digits
RECURSIVE ToInt(_)
ToInt(ds) ==
    IF ds = << >> THEN 0
    ELSE 10 * ToInt(SubSeq(ds, 1, Len(ds) - 1))
         + (CHOOSE i \in 1..Len(Digits) : Digits[i] = ds[Len(ds)]) - 1

\* text.count(c)
CountChar(text, c) == Cardinality({i \in 1..Len(text) : text[i] = c})

\* sum(w in lexicon for w in words)
Hits(words, lexicon) == Cardinality({i \in 1..Len(words) : words[i] \in lexicon})

\* text.startswith(prefix)
StartsWith(text, prefix) ==
    Len(prefix) <= Len(text) /\ SubSeq(text, 1, Len(prefix)) = prefix

_POSITIVE_WORDS ==
    {<<"t", "o", "p">>, <<"l", "e", "k", "k", "e", "r">>, <<"n", "i", "c", "e">>,
     <<"g", "a", "a", "f">>, <<"g", "o", "e", "d">>, <<"c", "h", "i", "l", "l">>,
     <<"r", "e", "l", "a", "x", "e", "d">>, <<"b", "l", "i", "j">>, <<"f", "i", "j", "n">>,
     <<"y", "e", "s">>, <<"y", "e", "s", "s">>, <<"y", "a", "y">>, <<"s", "u", "p", "e", "r">>,
     <<"t", "r", "o", "t", "s">>}

_NEGATIVE_WORDS ==
    {<<"k", "u", "t">>, <<"k", "l", "o", "t", "e">>, <<"k", "*", "t">>,
     <<"s", "l", "e", "c", "h", "t">>, <<"r", "o", "t">>, <<"b", "a", "l", "e", "n">>,
     <<"p", "f", "f", "f">>, <<"p", "f", "f", "f", "f">>, <<"w", "t", "f">>,
     <<"b", "o", "o", "s">>, <<"h", "a", "a", "t">>}

_STRESS_WORDS ==
    {<<"s", "t", "r", "e", "s", "s">>, <<"z", "e", "n", "u", "w">>,
     <<"z", "e", "n", "u", "w", "a", "c", "h", "t", "i", "g">>,
     <<"p", "a", "n", "i", "e", "k">>, <<"b", "a", "n", "g">>,
     <<"n", "e", "r", "v", "e", "u", "s">>, <<"o", "n", "z", "e", "k", "e", "r">>,
     <<"o", "v", "e", "r", "p", "r", "i", "k", "k", "e", "l", "d">>,
     <<"p", "r", "i", "k", "k", "e", "l", "s">>}

_ANGER_WORDS ==
    {<<"g", "v", "d">>, <<"g", "o", "d", "v", "e", "r">>, <<"f", "k">>, <<"f", "u", "c", "k">>,
     <<"w", "o", "e", "s", "t">>, <<"k", "l", "o", "o", "t", "z", "a", "k">>,
     <<"i", "d", "i", "o", "o", "t">>}

\* the two emoji markers are left out: \w+ never yields them as a word
_HIGH_ENERGY_MARKERS ==
    {<<"j", "o", "o">>, <<"m", "a", "a", "t">>, <<"h", "a", "h", "a">>,
     <<"h", "a", "h", "a", "h", "a">>, <<"o", "m", "g">>, <<"w", "t", "f">>}

\* _detect_emotion(message): message.strip() raises AttributeError on None
_detect_emotion(message) ==
    IF message.is_none
    THEN [raised |-> TRUE, label |-> "", confidence |-> 0, energy |-> 0, stress |-> 0]
    ELSE
    LET text == StripText(message.text)
        words == _to_words(text)
        pos_hits == Hits(words, _POSITIVE_WORDS)
        neg_hits == Hits(words, _NEGATIVE_WORDS)
        stress_hits == Hits(words, _STRESS_WORDS)
        anger_hits == Hits(words, _ANGER_WORDS)
        energy_hits == Hits(words, _HIGH_ENERGY_MARKERS)
        exclamations == CountChar(text, "!")
        question_marks == CountChar(text, "?")
        upper_chars == Cardinality({i \in 1..Len(text) : IsUpper(text[i])})
        total_chars == IF Len(text) = 0 THEN 1 ELSE Len(text)
        \* exclamations + energy_hits * 1.5 + uppercase_ratio * 10
        base_energy == _normalize(Frac(2 * exclamations * total_chars
                                       + 3 * energy_hits * total_chars + 20 * upper_chars,
                                       2 * total_chars), Frac(0, 1), Frac(10, 1))
        \* stress_hits * 1.5 + anger_hits * 2 + question_marks
        base_stress == _normalize(Frac(3 * stress_hits + 4 * anger_hits + 2 * question_marks, 2),
                                  Frac(0, 1), Frac(8, 1))
        sentiment_raw == pos_hits - (neg_hits + anger_hits)
        label == IF sentiment_raw > 1 THEN "positief"
                 ELSE IF sentiment_raw < 0 - 1
                      THEN (IF anger_hits > stress_hits THEN "boos" ELSE "negatief")
                 ELSE IF 10 * base_stress.num > 6 * base_stress.den THEN "gestrest"
                 ELSE "neutraal"
        signal_strength == pos_hits + neg_hits + stress_hits + anger_hits + exclamations
                           + question_marks
        confidence == _normalize(Frac(signal_strength, 1), Frac(0, 1), Frac(12, 1))
    IN [raised |-> FALSE, label |-> label, confidence |-> Round3(confidence),
        energy |-> Round3(base_energy), stress |-> Round3(base_stress)]

\* the dict in its insertion order
_INTENT_KEYWORDS ==
    <<[intent |-> "crypto",
       keywords |->
           <<<<"b", "t", "c">>, <<"b", "i", "t", "c", "o", "i", "n">>,
            <<"a", "l", "t", "s", "e", "a", "s", "o", "n">>,
            <<"a", "l", "t", " ", "s", "e", "a", "s", "o", "n">>,
            <<"a", "l", "t", "c", "o", "i", "n", "s">>, <<"w", "i", "f">>,
            <<"t", "a", "r", "s">>, <<"f", "a", "r", "t">>, <<"k", "a", "s", "p", "a">>,
            <<"k", "a", "s", "p">>, <<"e", "t", "c">>, <<"e", "t", "h">>,
            <<"b", "y", "b", "i", "t">>, <<"b", "i", "t", "v", "a", "v", "o">>,
            <<"b", "i", "n", "a", "n", "c", "e">>, <<"e", "n", "t", "r", "y">>,
            <<"t", "a", "r", "g", "e", "t">>, <<"s", "t", "o", "p", "l", "o", "s", "s">>,
            <<"s", "t", "o", "p", " ", "l", "o", "s", "s">>>>],
      [intent |-> "planning",
       keywords |->
           <<<<"p", "l", "a", "n", "n", "i", "n", "g">>,
            <<"a", "f", "s", "p", "r", "a", "a", "k">>, <<"a", "g", "e", "n", "d", "a">>,
            <<"m", "o", "r", "g", "e", "n">>, <<"v", "a", "n", "d", "a", "a", "g">>,
            <<"v", "a", "n", "a", "v", "o", "n", "d">>, <<"w", "e", "e", "k", "e", "n", "d">>,
            <<"d", "e", "a", "d", "l", "i", "n", "e">>, <<"u", "r", "e", "n">>,
            <<"w", "e", "r", "k", "e", "n">>,
            <<"s", "o", "l", "l", "i", "c", "i", "t", "a", "t", "i", "e">>>>],
      [intent |-> "werk",
       keywords |->
           <<<<"g", "e", "m", "e", "e", "n", "t", "e">>, <<"b", "a", "a", "n">>, <<"c", "v">>,
            <<"s", "o", "l", "l", "i", "c", "i", "t", "a", "t", "i", "e">>,
            <<"v", "a", "c", "a", "t", "u", "r", "e">>, <<"u", "r", "e", "n">>,
            <<"c", "o", "n", "t", "r", "a", "c", "t">>, <<"w", "e", "r", "k">>,
            <<"f", "u", "n", "c", "t", "i", "e">>,
            <<"t", "e", "a", "m", "l", "e", "i", "d", "e", "r">>>>],
      [intent |-> "ontwikkeling",
       keywords |->
           <<<<"l", "e", "r", "e", "n">>, <<"s", "t", "u", "d", "i", "e">>,
            <<"o", "p", "l", "e", "i", "d", "i", "n", "g">>, <<"c", "u", "r", "s", "u", "s">>,
            <<"b", "o", "e", "k", "e", "n">>, <<"p", "d", "f">>,
            <<"s", "a", "m", "e", "n", "v", "a", "t", "t", "e", "n">>,
            <<"d", "e", "v", "e", "l", "o", "p", "e", "r">>,
            <<"p", "r", "o", "g", "r", "a", "m", "m", "e", "r", "e", "n">>,
            <<"p", "y", "t", "h", "o", "n">>, <<"c", "o", "d", "e">>>>],
      [intent |-> "emotioneel",
       keywords |->
           <<<<"b", "a", "n", "g">>, <<"s", "t", "r", "e", "s", "s">>,
            <<"z", "o", "r", "g", "e", "n">>, <<"g", "e", "v", "o", "e", "l">>,
            <<"e", "m", "o", "t", "i", "e">>, <<"t", "w", "i", "j", "f", "e", "l">>,
            <<"d", "o", "o", "d", "o", "p">>,
            <<"o", "v", "e", "r", "p", "r", "i", "k", "k", "e", "l", "d">>,
            <<"o", "v", "e", "r", "p", "r", "i", "k", "k", "e", "l", "i", "n", "g">>,
            <<"o", "n", "z", "e", "k", "e", "r">>>>],
      [intent |-> "buddy",
       keywords |->
           <<<<"l", "i", "z", "z">>, <<"j", "a", "x">>, <<"b", "u", "d", "d", "y">>,
            <<"k", "i", "n", "d", "e", "r">>, <<"t", "i", "e", "n", "e", "r">>,
            <<"s", "c", "h", "o", "o", "l">>,
            <<"s", "i", "n", "t", "e", "r", "k", "l", "a", "a", "s">>,
            <<"c", "a", "d", "e", "a", "u">>, <<"s", "p", "e", "e", "l", "g", "o", "e", "d">>>>]>>

\* the keywords of one intent
KeywordsOf(intent) ==
    LET i == CHOOSE j \in 1..Len(_INTENT_KEYWORDS) : _INTENT_KEYWORDS[j].intent = intent
    IN _INTENT_KEYWORDS[i].keywords

\* scores[intent] after the loop: the keywords of the intent found in the text
IntentScoreOf(text, intent) ==
    Cardinality({i \in 1..Len(KeywordsOf(intent)) : Contains(text, KeywordsOf(intent)[i])})

\* the loop `if score > top_score` over scores.items() from position i on
RECURSIVE TopIntent(_, _, _, _)
TopIntent(text, i, top_intent, top_score) ==
    IF i > Len(_INTENT_KEYWORDS) THEN [label |-> top_intent, score |-> top_score]
    ELSE LET intent == _INTENT_KEYWORDS[i].intent
             score == IntentScoreOf(text, intent)
         IN IF score > top_score THEN TopIntent(text, i + 1, intent, score)
            ELSE TopIntent(text, i + 1, top_intent, top_score)

\* _detect_intent(message); tags is sorted(set(hits_tags)), held as a set
_detect_intent(message) ==
    LET text == Lower(message.text)
        hit_keywords ==
            UNION {{_INTENT_KEYWORDS[i].keywords[j] :
                       j \in {k \in 1..Len(_INTENT_KEYWORDS[i].keywords) :
                                 Contains(text, _INTENT_KEYWORDS[i].keywords[k])}} :
                   i \in 1..Len(_INTENT_KEYWORDS)}
        smalltalk == \E phrase \in {<<"j", "o", "o", " ", "m", "a", "a", "t">>, <<"j", "o", " ", "m", "a", "a", "t">>, <<"j", "o", "o">>, <<"m", "a", "a", "t">>} :
                        Contains(text, phrase)
        check_in == \E phrase \in {<<"h", "o", "e", " ", "i", "s", " ", "h", "e", "t">>, <<"h", "o", "e", " ", "g", "a", "a", "t", " ", "h", "e", "t">>} : Contains(text, phrase)
        smalltalk_score == (IF smalltalk THEN 2 ELSE 0) + (IF check_in THEN 2 ELSE 0)
        top == TopIntent(text, 1, "smalltalk", smalltalk_score)
        emo_weight == IntentScoreOf(text, "emotioneel")
        final == IF emo_weight >= 2 /\ emo_weight >= top.score
                 THEN [label |-> "emotioneel", score |-> emo_weight]
                 ELSE top
    IN [label |-> final.label,
        confidence |-> Round3(_normalize(Frac(final.score, 1), Frac(0, 1), Frac(5, 1))),
        tags |-> hit_keywords \cup (IF smalltalk THEN {<<"s", "m", "a", "l", "l", "t", "a", "l", "k">>} ELSE {})
                              \cup (IF check_in THEN {<<"c", "h", "e", "c", "k", "-", "i", "n">>} ELSE {})]

_MONEY_WORDS ==
    {<<"e", "u", "r", "o">>, <<"<euro>">>, <<"s", "a", "l", "a", "r", "i", "s">>,
     <<"l", "o", "o", "n">>, <<"v", "e", "r", "d", "i", "e", "n">>,
     <<"v", "e", "r", "d", "i", "e", "n", "t">>, <<"b", "u", "d", "g", "e", "t">>,
     <<"s", "c", "h", "u", "l", "d">>, <<"b", "e", "t", "a", "l">>,
     <<"r", "e", "k", "e", "n", "i", "n", "g">>, <<"p", "r", "i", "v", "e">>,
     <<"p", "r", "i", "v", "<e-acute>">>}

_TIME_WORDS ==
    {<<"v", "a", "n", "d", "a", "a", "g">>, <<"m", "o", "r", "g", "e", "n">>,
     <<"v", "a", "n", "a", "v", "o", "n", "d">>, <<"s", "t", "r", "a", "k", "s">>,
     <<"v", "o", "l", "g", "e", "n", "d", "e", " ", "w", "e", "e", "k">>,
     <<"o", "v", "e", "r", "m", "o", "r", "g", "e", "n">>,
     <<"d", "i", "t", " ", "w", "e", "e", "k", "e", "n", "d">>,
     <<"d", "i", "e", " ", "d", "a", "g">>, <<"d", "a", "t", "u", "m">>,
     <<"t", "i", "j", "d", "s", "t", "i", "p">>}

\* _extract_raw_stats(message): text = message or ""; the timestamp is
\* datetime.utcnow().isoformat() + "Z"
_extract_raw_stats(message, now) ==
    LET text == IF message.is_none THEN << >> ELSE message.text
        length == Len(text)
        upper_chars == Cardinality({i \in 1..Len(text) : IsUpper(text[i])})
        total_chars == IF length = 0 THEN 1 ELSE length
        lw == Lower(text)
    IN [length |-> length,
        word_count |-> Len(_to_words(text)),
        exclamations |-> CountChar(text, "!"),
        question_marks |-> CountChar(text, "?"),
        uppercase_ratio |-> Round3(Frac(upper_chars, total_chars)),
        contains_crypto |-> \E i \in 1..Len(KeywordsOf("crypto")) :
                               Contains(lw, KeywordsOf("crypto")[i]),
        contains_money |-> \E kw \in _MONEY_WORDS : Contains(lw, kw),
        contains_time |-> \E kw \in _TIME_WORDS : Contains(lw, kw),
        timestamp |-> now]

\* [h.lower().strip() for h in history if h]
HistoryLw(history) ==
    LET kept == SelectSeq(history, LAMBDA h : h # << >>)
    IN [i \in 1..Len(kept) |-> StripText(Lower(kept[i]))]

\* _detect_habit_strength(message, history), in thousandths
_detect_habit_strength(message, history) ==
    IF history = << >> THEN 100
    ELSE LET text == StripText(Lower(message.text))
             history_lw == HistoryLw(history)
             same_start ==
                 Cardinality({i \in 1..Len(history_lw) :
                     /\ history_lw[i] # << >>
                     /\ \/ /\ StartsWith(text, <<"j", "o", "o", " ", "m", "a", "a", "t">>)
                           /\ StartsWith(history_lw[i], <<"j", "o", "o", " ", "m", "a", "a", "t">>)
                        \/ Contains(history_lw[i], text)
                        \/ Contains(text, history_lw[i])})
             ratio == _safe_div(same_start, Len(history_lw))
         IN IF text = << >> THEN 0
            ELSE Round3(_normalize(ratio, Frac(0, 1), Frac(6, 10)))

\* _estimate_importance(message, intent, emotion, raw), in thousandths; base is
\* summed in millionths
_estimate_importance(message, intent, emotion, raw) ==
    LET text == Lower(message.text)
        base == 200000
                + (IF intent.label \in {"werk", "planning", "ontwikkeling", "crypto"}
                   THEN 200000 ELSE 0)
                + (IF intent.label = "emotioneel" THEN 150000 ELSE 0)
                + (IF raw.contains_money THEN 150000 ELSE 0)
                + (IF \E w \in {<<"c", "o", "n", "t", "r", "a", "c", "t">>, <<"s", "o", "l", "l", "i", "c", "i", "t", "a", "t", "i", "e">>, <<"b", "a", "a", "n">>, <<"g", "e", "m", "e", "e", "n", "t", "e">>} :
                         Contains(text, w)
                   THEN 150000 ELSE 0)
                + (IF raw.contains_time THEN 100000 ELSE 0)
                + emotion.stress * 150
                + (IF emotion.label \in {"boos", "gestrest", "negatief"} THEN 100000 ELSE 0)
                + (IF raw.word_count > 40 THEN 50000 ELSE 0)
                + (IF raw.word_count > 80 THEN 50000 ELSE 0)
    IN Max(0, Min(1000, RoundHalfEven(base, 1000)))

\* set(_to_words(...))
WordSet(text) == {_to_words(text)[i] : i \in 1..Len(_to_words(text))}

\* _estimate_novelty(message, history), in thousandths
_estimate_novelty(message, history) ==
    IF history = << >> THEN 1000
    ELSE LET text == StripText(Lower(message.text))
             history_lw == HistoryLw(history)
             total == Len(history_lw)
             w1 == WordSet(text)
             similar ==
                 Cardinality({i \in 1..total :
                     /\ history_lw[i] # << >>
                     /\ w1 # {} /\ WordSet(history_lw[i]) # {}
                     /\ 10 * Cardinality(w1 \cap WordSet(history_lw[i]))
                           > 7 * Cardinality(w1 \cup WordSet(history_lw[i]))})
         IN IF text = << >> THEN 0
            ELSE IF total = 0 THEN 1000
            ELSE Max(0, Min(1000, Round3(Frac(total - similar, total))))

risk_words ==
    {<<"a", "l", "l", "-", "i", "n">>, <<"a", "l", "l", " ", "i", "n">>,
     <<"a", "l", "l", "e", "s", " ", "i", "n", "z", "e", "t", "t", "e", "n">>,
     <<"a", "l", "l", "e", "s", " ", "e", "r", "i", "n">>,
     <<"m", "a", "x", " ", "l", "e", "v", "e", "r", "a", "g", "e">>, <<"x", "5", "0">>,
     <<"x", "1", "0", "0">>, <<"g", "o", "k", "k", "e", "n">>, <<"c", "a", "s", "i", "n", "o">>,
     <<"m", "o", "g", "e", "l", "i", "j", "k", " ", "v", "e", "r", "l", "i", "e", "s">>}

\* _estimate_risk(message, intent, emotion, raw), in thousandths; base is summed
\* in millionths
_estimate_risk(message, intent, emotion, raw) ==
    LET text == Lower(message.text)
        numbers == FindAll(text, "d")
        max_num == IF numbers = << >> THEN 0
                   ELSE LET ns == {ToInt(numbers[i]) : i \in 1..Len(numbers)}
                        IN CHOOSE n \in ns : \A m \in ns : m <= n
        base == (IF raw.contains_crypto THEN 200000 + emotion.stress * 200 ELSE 0)
                + (IF \E w \in risk_words : Contains(text, w) THEN 300000 ELSE 0)
                + (IF \E sym \in {<<"<euro>">>, <<"e", "u", "r", "o">>} : Contains(text, sym)
                   THEN (IF max_num >= 500 THEN 200000
                         ELSE IF max_num >= 200 THEN 100000 ELSE 0)
                   ELSE 0)
                + (IF raw.contains_money /\ emotion.stress > 500 THEN 200000 ELSE 0)
        rounded == IF intent.label = "smalltalk" THEN RoundHalfEven(3 * base, 10000)
                   ELSE RoundHalfEven(base, 1000)
    IN Max(0, Min(1000, rounded))

\* what a call that raised leaves its caller with
Raised ==
    [raised |-> TRUE, version |-> 0,
     emotion |-> [label |-> "", confidence |-> 0, energy |-> 0, stress |-> 0],
     intent |-> [label |-> "", confidence |-> 0, tags |-> {}],
     behavior |-> [importance |-> 0, novelty |-> 0, habit_strength |-> 0, risk |-> 0],
     raw |-> [length |-> 0, word_count |-> 0, exclamations |-> 0, question_marks |-> 0,
              uppercase_ratio |-> 0, contains_crypto |-> FALSE, contains_money |-> FALSE,
              contains_time |-> FALSE, timestamp |-> 0]]

\* score_message(message, history) called at time now; history None counts as []
score_message(message, history, now) ==
    LET raw == _extract_raw_stats(message, now)
        emotion == _detect_emotion(message)
        intent == _detect_intent(message)
    IN IF emotion.raised THEN Raised
       ELSE [raised |-> FALSE,
             version |-> SCORE_VERSION,
             emotion |-> [label |-> emotion.label, confidence |-> emotion.confidence,
                          energy |-> emotion.energy, stress |-> emotion.stress],
             intent |-> intent,
             behavior |-> [importance |-> _estimate_importance(message, intent, emotion, raw),
                           novelty |-> _estimate_novelty(message, history),
                           habit_strength |-> _detect_habit_strength(message, history),
                           risk |-> _estimate_risk(message, intent, emotion, raw)],
             raw |-> raw]

MLIdle == ctx_patterns = << >> /\ ml_clock = 0 /\ ml_results = << >>

SummaryIdle == slice = << >> /\ summary_out = << >>

FxIdle == fx_in = << >> /\ fx_clock = 0 /\ fx_out = << >>

-----------------------------------------------------------------------------
(* Bounds of the pipeline model *)

\* length of each user's run of events in the initial learning_events table
MaxSeg == 6
\* how many events POST /events/log may add during a behaviour
MaxLog == 1
\* how many derive requests a behaviour may serve
MaxRuns == 2

Requests == {"r1", "r2"}

\* an event that matches every rule of both derivers
EvAll(uid) == Event(NULL, uid, "s1", "ask_explain", <<"tool:search", " frustration ">>, "")
\* an event that only the search rule matches
EvSearch(uid) == Event(NULL, uid, "s1", "tool_call", <<"", " ">>, "search")

\* the bodies POST /events/log receives
EventIns == {EvSearch("u1")}

\* str.strip() on the tags the model uses
Strip(t) == CASE t = " frustration " -> "frustration"
              [] t = " " -> ""
              [] OTHER -> t

\* log_event: tags = [t.strip() for t in e.tags if t and t.strip()]; tags[:50]
StripTags(tags) ==
    LET kept == SelectSeq(tags, LAMBDA t : t # "" /\ Strip(t) # "")
    IN Head_n([i \in 1..Len(kept) |-> Strip(kept[i])], 50)

\* a row as the INSERT of log_event stores it, created_at assigned by the store
Stored(e, ts) == [e EXCEPT !.created_at = ts, !.tags = StripTags(e.tags)]

\* the table the behaviours start from: MaxSeg events of u1, then MaxSeg of u2,
\* each logged one tick after the other
InitTable ==
    LET ins == Repeat(EvAll("u1"), MaxSeg) \o Repeat(EvAll("u2"), MaxSeg)
    IN [i \in 1..Len(ins) |-> Stored(ins[i], i)]

ClockEnd == 2 * MaxSeg + 2 * MaxRuns + MaxLog

\* query strings of the derive endpoints (limit 1..2000, window_minutes >= 5)
Queries ==
    {[limit |-> 500, window_minutes |-> 1440, user_id |-> ""],
     [limit |-> 5, window_minutes |-> 1440, user_id |-> ""],
     [limit |-> 500, window_minutes |-> 1440, user_id |-> "u1"],
     [limit |-> 500, window_minutes |-> 5, user_id |-> "u2"]}

-----------------------------------------------------------------------------
(* api/learning/aggregator.py: fetch_events *)

fetch_events(tbl, now, limit, window_minutes, user_id, session_id, event_type, tag) ==
    LET start == now - window_minutes
        Where(e) == /\ e.created_at >= start
                    /\ e.created_at <= now
                    /\ (user_id # "" => e.user_id = user_id)
                    /\ (session_id # "" => e.session_id = session_id)
                    /\ (event_type # "" => e.event_type = event_type)
                    /\ (tag # "" => has_tag(e, tag))
        \* ORDER BY created_at DESC: the table is held in ascending created_at
    IN Head_n(Rev(SelectSeq(tbl, Where)), limit)

-----------------------------------------------------------------------------
(* api/learning/aggregator.py: upsert_patterns, one statement *)

\* a plain INSERT, as if the table had no unique key
UpsertRow_plain_insert(rows, p) == rows \cup {p}

\* DO UPDATE that adds the new count to the stored one
UpsertRow_additive(rows, p) ==
    IF \E r \in rows : KeyOf(r) = KeyOf(p)
    THEN {IF KeyOf(r) = KeyOf(p)
          THEN [r EXCEPT !.value = IF "count" \in DOMAIN p.value
                                   THEN [count |-> r.value.count + p.value.count]
                                   ELSE p.value,
                         !.confidence = p.confidence,
                         !.evidence = [p.evidence EXCEPT
                                          !.count = r.evidence.count + p.evidence.count],
                         !.last_seen = p.last_seen]
          ELSE r : r \in rows}
    ELSE rows \cup {p}

\* DO UPDATE that forgets the last_seen column
UpsertRow_stale_last_seen(rows, p) ==
    IF \E r \in rows : KeyOf(r) = KeyOf(p)
    THEN {IF KeyOf(r) = KeyOf(p)
          THEN [r EXCEPT !.value = p.value, !.confidence = p.confidence,
                         !.evidence = p.evidence]
          ELSE r : r \in rows}
    ELSE rows \cup {p}

\* DO UPDATE ... WHERE the new confidence is not lower: a more confident row stays
UpsertRow_keep_confident(rows, p) ==
    IF \E r \in rows : KeyOf(r) = KeyOf(p)
    THEN {IF KeyOf(r) = KeyOf(p) /\ r.confidence <= p.confidence
          THEN [r EXCEPT !.value = p.value, !.confidence = p.confidence,
                         !.evidence = p.evidence, !.last_seen = p.last_seen]
          ELSE r : r \in rows}
    ELSE rows \cup {p}

\* ON CONFLICT DO NOTHING: the first writer wins
UpsertRow_do_nothing(rows, p) ==
    IF \E r \in rows : KeyOf(r) = KeyOf(p) THEN rows ELSE rows \cup {p}

\* the table is rebuilt from the statement's row
UpsertRow_rebuild(rows, p) == {p}

\* INSERT ... ON CONFLICT (subject, pattern_type, key) DO UPDATE SET
\*   value, confidence, evidence, last_seen = EXCLUDED.*
UpsertRow(rows, p) ==
    IF \E r \in rows : KeyOf(r) = KeyOf(p)
    THEN {IF KeyOf(r) = KeyOf(p)
          THEN [r EXCEPT !.value = p.value, !.confidence = p.confidence,
                         !.evidence = p.evidence, !.last_seen = p.last_seen]
          ELSE r : r \in rows}
    ELSE rows \cup {p}

RowsOf(rows, k) == {r \in rows : KeyOf(r) = k}

-----------------------------------------------------------------------------
(* The derive handlers: POST /learning/derive and POST /events/learning/derive *)

NoEvents == << >>
NoPatterns == << >>

\* events = await fetch_events(...); patterns = derive_patterns(events);
\* upsert_patterns returns 0 at once when there is no pattern.
\* Each utcnow() reads a later time than the one before.
FetchAndDerive(r) ==
    /\ pc[r] = "idle"
    /\ clock + 2 <= ClockEnd
    /\ \E ep \in Endpoints, q \in Queries :
          LET evs == fetch_events(learning_events, clock + 1, q.limit, q.window_minutes,
                                  q.user_id, "", "", "")
              ps == Derive(ep, evs, clock + 2)
          IN /\ endpoint' = [endpoint EXCEPT ![r] = ep]
             /\ events' = [events EXCEPT ![r] = evs]
             /\ patterns' = [patterns EXCEPT ![r] = ps]
             /\ run_user' = [run_user EXCEPT ![r] = q.user_id]
             /\ pc' = [pc EXCEPT ![r] = IF ps = << >> THEN "done" ELSE "upsert"]
    /\ clock' = clock + 2
    /\ written' = [written EXCEPT ![r] = 0]
    /\ UNCHANGED <<learning_events, learning_patterns, lastWrite, writers>>

\* one turn of `for p in patterns: await conn.execute(sql, ...); n += 1`
Upsert(r) ==
    /\ pc[r] = "upsert"
    /\ LET p == patterns[r][written[r] + 1] IN
          /\ learning_patterns' = UpsertRow(learning_patterns, p)
          /\ lastWrite' = [lastWrite EXCEPT ![KeyOf(p)] = {p}]
          /\ writers' = [writers EXCEPT ![KeyOf(p)] = Append(@, run_user[r])]
    /\ written' = [written EXCEPT ![r] = written[r] + 1]
    /\ pc' = [pc EXCEPT ![r] = IF written[r] + 1 = Len(patterns[r]) THEN "done" ELSE "upsert"]
    /\ UNCHANGED <<clock, learning_events, endpoint, events, patterns, run_user>>

\* the handler returns its response; the request's locals go away
Return(r) ==
    /\ pc[r] = "done"
    /\ pc' = [pc EXCEPT ![r] = "idle"]
    /\ events' = [events EXCEPT ![r] = NoEvents]
    /\ patterns' = [patterns EXCEPT ![r] = NoPatterns]
    /\ written' = [written EXCEPT ![r] = 0]
    /\ run_user' = [run_user EXCEPT ![r] = ""]
    /\ UNCHANGED <<clock, learning_events, learning_patterns, endpoint, lastWrite, writers>>

\* api/routes/events.py log_event: id and created_at are assigned by the store
LogEvent ==
    /\ Len(learning_events) < 2 * MaxSeg + MaxLog
    /\ clock + 1 <= ClockEnd
    /\ \E e \in EventIns :
          learning_events' = Append(learning_events, Stored(e, clock + 1))
    /\ clock' = clock + 1
    /\ UNCHANGED <<learning_patterns, pc, endpoint, events, patterns, written, lastWrite,
                   run_user, writers>>

DeriveIdle ==
    /\ batch = << >> /\ batchNow = 0 /\ derived = << >> /\ deriver = "none"

NoScore ==
    /\ modules_score = [num |-> 0, den |-> 1]
    /\ self_learning_score = 0
    /\ usage_score = 0
    /\ slimheidsmeter = 0
    /\ scored = FALSE
    /\ score_raised = FALSE

ScoreIdle ==
    /\ modules_raw = << >>
    /\ self_learning_raw = [has_data |-> FALSE, avg_score |-> << >>,
                            preferences_count |-> 0, last_mood |-> << >>]
    /\ last_session_raw = [users |-> << >>]
    /\ scoreNow = 0
    /\ none_args = {}
    /\ NoScore

Init ==
    /\ learning_events = InitTable
    /\ clock = Len(learning_events)
    /\ learning_patterns = {}
    /\ pc = [r \in Requests |-> "idle"]
    /\ endpoint = [r \in Requests |-> "learning"]
    /\ events = [r \in Requests |-> NoEvents]
    /\ patterns = [r \in Requests |-> NoPatterns]
    /\ written = [r \in Requests |-> 0]
    /\ lastWrite = [k \in PatternKeys |-> {}]
    /\ run_user = [r \in Requests |-> ""]
    /\ writers = [k \in PatternKeys |-> << >>]
    /\ DeriveIdle
    /\ ScoreIdle
    /\ DashIdle
    /\ RegistryIdle
    /\ MLIdle
    /\ SummaryIdle
    /\ FxIdle

Next ==
    \/ (\E r \in Requests : FetchAndDerive(r))
           /\ UNCHANGED <<deriveVars, scoreVars, dashVars, regVars, mlVars, sumVars, fxVars>>
    \/ (\E r \in Requests : Upsert(r))
           /\ UNCHANGED <<deriveVars, scoreVars, dashVars, regVars, mlVars, sumVars, fxVars>>
    \/ (\E r \in Requests : Return(r))
           /\ UNCHANGED <<deriveVars, scoreVars, dashVars, regVars, mlVars, sumVars, fxVars>>
    \/ LogEvent /\ UNCHANGED <<deriveVars, scoreVars, dashVars, regVars, mlVars, sumVars, fxVars>>

Spec == Init /\ [][Next]_vars

-----------------------------------------------------------------------------
(* The derivers as pure functions: a list of events in, a list of patterns out *)

\* longest run of equal events in a list handed to a deriver
MaxRun == 7

\* event dicts by what the rules read: event_type, tags, payload.action
EventKinds ==
    {Event(NULL, "u1", "s1", "ask_explain", << >>, ""),
     Event(NULL, "u1", "s1", "chat", <<"ask_explain">>, ""),
     Event(NULL, "u1", "s1", "chat", <<"pref:explain">>, ""),
     Event(NULL, "u1", "s1", "tool_call", <<"tool:search">>, ""),
     Event(NULL, "u1", "s1", "tool_call", << >>, "search"),
     Event(NULL, "u1", "s1", "correction", << >>, ""),
     Event(NULL, "u1", "s1", "frustration", << >>, ""),
     Event(NULL, "u1", "s1", "chat", <<"topic", "correction">>, ""),
     Event(NULL, "u1", "s1", "chat", <<"frustration">>, "open"),
     Event(NULL, "u1", "s1", "chat", <<"anomaly:friction">>, ""),
     Event(NULL, "u1", "s1", "ask_explain", <<"tool:search", "frustration">>, "search"),
     Event(NULL, "u1", "s1", "chat", <<"topic">>, "open")}

\* n events a then m events b, newest first as fetch_events orders them; the events
\* of a run carry their created_at or lack it
Batch(a, n, sa, b, m, sb) ==
    [i \in 1..(n + m) |->
        IF i <= n
        THEN [a EXCEPT !.created_at = IF sa THEN n + m + 1 - i ELSE NULL]
        ELSE [b EXCEPT !.created_at = IF sb THEN n + m + 1 - i ELSE NULL]]

Batches ==
    {Batch(a, n, sa, b, m, sb) :
        a \in EventKinds, b \in EventKinds, n \in 0..MaxRun, m \in 0..MaxRun,
        sa \in BOOLEAN, sb \in BOOLEAN}

PipeIdle ==
    /\ clock = 0
    /\ learning_events = << >>
    /\ learning_patterns = {}
    /\ pc = [r \in Requests |-> "idle"]
    /\ endpoint = [r \in Requests |-> "learning"]
    /\ events = [r \in Requests |-> NoEvents]
    /\ patterns = [r \in Requests |-> NoPatterns]
    /\ written = [r \in Requests |-> 0]
    /\ lastWrite = [k \in PatternKeys |-> {}]
    /\ run_user = [r \in Requests |-> ""]
    /\ writers = [k \in PatternKeys |-> << >>]

InitDerive ==
    /\ batch \in Batches
    /\ batchNow = Len(batch) + 1
    /\ derived = << >>
    /\ deriver = "none"
    /\ PipeIdle
    /\ ScoreIdle
    /\ DashIdle
    /\ RegistryIdle
    /\ MLIdle
    /\ SummaryIdle
    /\ FxIdle

\* patterns = derive_patterns(events) of api.learning.aggregator
RunDeriveLearning ==
    /\ deriver = "none"
    /\ derived' = derive_patterns(batch, batchNow)
    /\ deriver' = "learning"
    /\ UNCHANGED <<batch, batchNow>>

\* patterns = _derive_patterns(events) of api.routes.events
RunDeriveEvents ==
    /\ deriver = "none"
    /\ derived' = _derive_patterns(batch, batchNow)
    /\ deriver' = "events"
    /\ UNCHANGED <<batch, batchNow>>

NextDerive ==
    \/ RunDeriveLearning
           /\ UNCHANGED <<pipeVars, scoreVars, dashVars, regVars, mlVars, sumVars, fxVars>>
    \/ RunDeriveEvents
           /\ UNCHANGED <<pipeVars, scoreVars, dashVars, regVars, mlVars, sumVars, fxVars>>

SpecDerive == InitDerive /\ [][NextDerive]_vars

-----------------------------------------------------------------------------
(* The composite scorer as a function of its three arguments *)

\* longest list of module statuses enumerated entry by entry
MaxModules == 3
\* most users of the last-session state
MaxUsers == 2
\* length of the one long list of modules
ManyModules == 1000

ModuleIns ==
    {[key |-> "auth", status |-> "ok"],
     [key |-> "database", status |-> "Warn"],
     [key |-> "search", status |-> "OK"],
     [key |-> "search", status |-> "warn"],
     [key |-> "uploads", status |-> "off"],
     [key |-> "chat_api", status |-> "error"],
     [key |-> MISSING, status |-> MISSING]}

ModuleLists ==
    UNION {[1..n -> ModuleIns] : n \in 0..MaxModules}
    \cup {Repeat([key |-> "auth", status |-> "ok"], ManyModules)}

(* modules/zelflerend/filter.py: the mood leer_filter stores as mood.last *)

negatieve ==
    {<<"k", "u", "t">>,
     <<"f", "k">>,
     <<"f", "u", "c", "k", "i", "n", "g">>,
     <<"s", "t", "r", "e", "s", "s">>,
     <<"g", "e", "s", "t", "r", "e", "s", "t">>,
     <<"b", "o", "o", "s">>,
     <<"w", "o", "e", "s", "t">>,
     <<"g", "e", "n", "e", "u", "k", "t">>,
     <<"k", "l", "o", "t", "e">>}

positieve ==
    {<<"n", "i", "c", "e">>,
     <<"l", "e", "k", "k", "e", "r">>,
     <<"t", "o", "p">>,
     <<"c", "h", "i", "l", "l">>,
     <<"r", "u", "s", "t", "i", "g">>,
     <<"r", "e", "l", "a", "x", "e", "d">>,
     <<"b", "l", "i", "j">>,
     <<"t", "r", "o", "t", "s">>}

\* _detect_mood(prompt_lower): the label, as text
_detect_mood(prompt_lower) ==
    IF \E w \in negatieve : Contains(prompt_lower, w) THEN <<"n", "e", "g", "a", "t", "i", "e", "f">>
    ELSE IF \E w \in positieve : Contains(prompt_lower, w) THEN <<"p", "o", "s", "i", "t", "i", "e", "f">>
    ELSE <<"n", "e", "u", "t", "r", "a", "a", "l">>

\* prompts handed to leer_filter, lower-cased as leer_filter does
Prompts ==
    {<<"i", "k", " ", "b", "e", "n", " ", "b", "o", "o", "s">>,
     <<"l", "e", "k", "k", "e", "r", " ", "b", "e", "z", "i", "g">>,
     <<"h", "a", "l", "l", "o", " ", "d", "a", "a", "r">>,
     <<"n", "i", "e", "t", " ", "b", "l", "i", "j", " ", "m", "e", "t", " ", "d", "i", "e", " ", "k", "u", "t", " ", "b", "u", "g">>,
     <<>>}

\* mood.last as the dashboard reads it from the stored self-learning state
Moods ==
    {<< >>,
     <<"b", "l", "i", "j">>,
     <<"h", "e", "e", "l", " ", "b", "l", "i", "j">>,
     <<" ", "R", "u", "s", "t", "i", "g", " ">>,
     <<"g", "e", "s", "t", "r", "e", "s", "t">>,
     <<"o", "n", "r", "u", "s", "t", "i", "g">>,
     <<"n", "e", "u", "t", "r", "a", "a", "l">>,
     <<"p", "o", "s", "i", "t", "i", "e", "f">>,
     <<"n", "e", "g", "a", "t", "i", "e", "f">>}

\* average learning scores, in tenths: None, -5.0, 0.0, 5.5, 10.0, 999.0
AvgScores == {<< >>, <<0 - 50>>, <<0>>, <<55>>, <<100>>, <<9990>>}

PrefCounts == {0 - 3, 0, 4, 10, 1000}

\* self-learning maps that lack keys, the empty map among them
SelfLearningPartial ==
    {[k \in {} |-> 0],
     [preferences_count |-> 4],
     [has_data |-> TRUE, last_mood |-> <<"b", "l", "i", "j">>],
     [avg_score |-> <<55>>, last_mood |-> <<"b", "o", "o", "s">>]}

SelfLearningIns ==
    [has_data : BOOLEAN, avg_score : AvgScores, preferences_count : PrefCounts,
     last_mood : Moods]
    \cup SelfLearningPartial

\* the arguments passed as None; the variable of a None argument holds an empty value
NoneArgs == SUBSET {"modules_raw", "self_learning_raw", "last_session_raw"} \ {{}}

\* the time the score is computed at, in hours
ScoreTime == 200

\* hours elapsed since a user's last_action: the steps of _score_usage and a
\* timestamp in the future
Elapsed == {0 - 1, 6, 7, 24, 25, 72, 73, 168, 169}

LastActions ==
    {[kind |-> "none", at |-> 0], [kind |-> "bad", at |-> 0]}
    \cup {[kind |-> "ok", at |-> ScoreTime - h] : h \in Elapsed}

UserIns == [last_action : LastActions, estimated_dev_minutes : {0, 60}]

LastSessionIns == {[users |-> u] : u \in UNION {[1..n -> UserIns] : n \in 0..MaxUsers}}

\* arguments that put each sub-score at its floor, inside its range and at its top
ModuleCorners ==
    {<< >>,
     <<[key |-> "search", status |-> "warn"], [key |-> "uploads", status |-> "off"]>>,
     <<[key |-> "auth", status |-> "ok"]>>}

SelfLearningCorners ==
    {[has_data |-> FALSE, avg_score |-> << >>, preferences_count |-> 0,
      last_mood |-> <<"g", "e", "s", "t", "r", "e", "s", "t">>],
     [has_data |-> TRUE, avg_score |-> <<55>>, preferences_count |-> 4, last_mood |-> << >>],
     [has_data |-> TRUE, avg_score |-> <<9990>>, preferences_count |-> 1000,
      last_mood |-> <<"b", "l", "i", "j">>]}

LastSessionCorners ==
    {[users |-> << >>],
     [users |-> <<[last_action |-> [kind |-> "ok", at |-> ScoreTime - 25],
                   estimated_dev_minutes |-> 0]>>],
     [users |-> <<[last_action |-> [kind |-> "ok", at |-> ScoreTime],
                   estimated_dev_minutes |-> 60]>>]}

\* every value of one argument with the corners of the other two, and every
\* choice of None arguments with the corners of the others
InitScore ==
    /\ \/ /\ modules_raw \in ModuleLists
          /\ self_learning_raw \in SelfLearningCorners
          /\ last_session_raw \in LastSessionCorners
          /\ none_args = {}
       \/ /\ modules_raw \in ModuleCorners
          /\ self_learning_raw \in SelfLearningIns
          /\ last_session_raw \in LastSessionCorners
          /\ none_args = {}
       \/ /\ modules_raw \in ModuleCorners
          /\ self_learning_raw \in SelfLearningCorners
          /\ last_session_raw \in LastSessionIns
          /\ none_args = {}
       \/ /\ none_args \in NoneArgs
          /\ modules_raw \in IF "modules_raw" \in none_args THEN {<< >>} ELSE ModuleCorners
          /\ self_learning_raw \in IF "self_learning_raw" \in none_args
                                   THEN {[k \in {} |-> 0]} ELSE SelfLearningCorners
          /\ last_session_raw \in IF "last_session_raw" \in none_args
                                  THEN {[users |-> << >>]} ELSE LastSessionCorners
    /\ scoreNow = ScoreTime
    /\ NoScore
    /\ PipeIdle
    /\ DeriveIdle
    /\ DashIdle
    /\ RegistryIdle
    /\ MLIdle
    /\ SummaryIdle
    /\ FxIdle

\* calculate_slimheidsmeter(modules_raw, self_learning_raw, last_session_raw)
Calculate ==
    /\ ~scored /\ ~score_raised
    /\ IF Raises(none_args)
       THEN /\ score_raised' = TRUE
            /\ UNCHANGED <<modules_score, self_learning_score, usage_score,
                           slimheidsmeter, scored>>
       ELSE LET res == calculate_slimheidsmeter(modules_raw, self_learning_raw,
                                                last_session_raw, scoreNow)
            IN /\ modules_score' = res.modules_score
               /\ self_learning_score' = res.self_learning_score
               /\ usage_score' = res.usage_score
               /\ slimheidsmeter' = res.total
               /\ scored' = TRUE
               /\ UNCHANGED score_raised
    /\ UNCHANGED <<modules_raw, self_learning_raw, last_session_raw, scoreNow, none_args>>

NextScore == Calculate
           /\ UNCHANGED <<pipeVars, deriveVars, dashVars, regVars, mlVars, sumVars, fxVars>>

SpecScore == InitScore /\ [][NextScore]_vars

-----------------------------------------------------------------------------
(* The dashboard endpoint over what a request can find *)

Probes ==
    [db_file : BOOLEAN, db_conn : BOOLEAN, sse : BOOLEAN, uploads : {"off", "ok", "warn"},
     zelfleren_file : BOOLEAN]

(* modules/zelflerend/analyse.py *)

\* _score_single_user, in tenths of a point: total_prompts / 10.0 points are
\* total_prompts tenths
_score_single_user(user_state) ==
    LET score == Min(user_state.total_prompts, 400)
                 + Min(user_state.pattern_count * 20, 300)
                 + Min(user_state.pref_count * 30, 300)
    IN Max(0, Min(score, 1000))

RECURSIVE SumScores(_)
SumScores(scores) ==
    IF scores = << >> THEN 0 ELSE Head(scores) + SumScores(Tail(scores))

\* get_global_self_learning_summary over the users of the stored state; avg_score
\* is round(sum / len, 1), held in tenths
get_global_self_learning_summary(users) ==
    LET user_scores == [i \in 1..Len(users) |-> _score_single_user(users[i])]
    IN [kind |-> "ok",
        has_data |-> users # << >>,
        avg_score |-> IF users # << >>
                      THEN RoundHalfEven(SumScores(user_scores), Len(users))
                      ELSE 0]

\* the users of zelfleren.json by what the score reads: stats.total_prompts,
\* sum(patterns.values()) and len(preferences)
StoredUsers ==
    LET new == [total_prompts |-> 0, pattern_count |-> 0, pref_count |-> 0]
        light == [total_prompts |-> 55, pattern_count |-> 0, pref_count |-> 0]
        busy == [total_prompts |-> 400, pattern_count |-> 12, pref_count |-> 0]
        full == [total_prompts |-> 1200, pattern_count |-> 20, pref_count |-> 11]
    IN {<< >>, <<new>>, <<light>>, <<busy>>, <<new, full>>, <<light, busy>>}

\* what get_global_self_learning_summary does: it is missing, it raises, or it
\* returns the summary of the stored state
Summaries ==
    {[kind |-> "unavailable", has_data |-> FALSE, avg_score |-> 0],
     [kind |-> "raises", has_data |-> FALSE, avg_score |-> 0]}
    \cup {get_global_self_learning_summary(users) : users \in StoredUsers}

\* the current user's entry of zelfleren.json: len(preferences) and mood.last
UserStates ==
    {[preferences |-> 0, last_mood |-> << >>],
     [preferences |-> 4, last_mood |-> <<"b", "l", "i", "j">>]}

\* the users of last_session.json before the request
LastSessionFiles ==
    LET other == [uid |-> "2", last_action |-> [kind |-> "ok", at |-> ScoreTime - 25],
                  estimated_dev_minutes |-> 60]
        self == [uid |-> CurrentUid, last_action |-> [kind |-> "ok", at |-> ScoreTime - 73],
                 estimated_dev_minutes |-> 60]
    IN {[users |-> u] : u \in {<< >>, <<other>>, <<self>>, <<other, self>>}}

InitDash ==
    /\ dash_in \in [probes : Probes, last_session : LastSessionFiles, summary : Summaries,
                     user_state : UserStates, scorer_loaded : BOOLEAN, z_parses : BOOLEAN,
                     now : {ScoreTime}]
    /\ payload = NoPayload
    /\ PipeIdle
    /\ DeriveIdle
    /\ ScoreIdle
    /\ RegistryIdle
    /\ MLIdle
    /\ SummaryIdle
    /\ FxIdle

NextDash == GetDashboard
           /\ UNCHANGED <<pipeVars, deriveVars, scoreVars, regVars, mlVars, sumVars, fxVars>>

SpecDash == InitDash /\ [][NextDash]_vars

-----------------------------------------------------------------------------
(* The module registry from before its import, and one run of run_once *)

InitRegistry ==
    /\ RegistryIdle
    /\ MLIdle
    /\ SummaryIdle
    /\ FxIdle
    /\ PipeIdle
    /\ DeriveIdle
    /\ ScoreIdle
    /\ DashIdle

NextRegistry ==
    \/ ImportRegistry
           /\ UNCHANGED <<pipeVars, deriveVars, scoreVars, dashVars, mlVars, sumVars, fxVars>>
    \/ (\E m \in RegisterIns : Register(m))
           /\ UNCHANGED <<pipeVars, deriveVars, scoreVars, dashVars, mlVars, sumVars, fxVars>>
    \/ GetRegistry
           /\ UNCHANGED <<pipeVars, deriveVars, scoreVars, dashVars, mlVars, sumVars, fxVars>>
    \/ (\E i \in 1..Len(returned) : \E e \in Edits : ModifyReturned(i, e))
           /\ UNCHANGED <<pipeVars, deriveVars, scoreVars, dashVars, mlVars, sumVars, fxVars>>
    \/ RunOnce /\ UNCHANGED <<pipeVars, deriveVars, scoreVars, dashVars, mlVars, sumVars, fxVars>>

SpecRegistry == InitRegistry /\ [][NextRegistry]_vars

-----------------------------------------------------------------------------
(* The reference modules computing over a context (api/ml/run_once.py)         *)

\* compute calls in a behaviour
MaxCalls == 2

\* value columns: dicts, plain strings, strings holding JSON, and other values
ExplainValues ==
    {DictValue(StrLevel(<<"h", "i", "g", "h">>)),
     DictValue(StrLevel(<<"m", "e", "d", "i", "u", "m">>)),
     DictValue(StrLevel(<<"l", "o", "w">>)),
     DictValue(StrLevel(<<" ", "M", "e", "d", "i", "u", "m", " ">>)),
     DictValue(StrLevel(<<" ">>)),
     DictValue([type |-> "int", s |-> <<"3">>]),
     DictValue(NoLevel),
     StrValue(<<"h", "i", "g", "h">>, NoObj),
     StrValue(<<" ", "L", "O", "W", " ">>, NoObj),
     StrValue(<<"e", "x", "p", "e", "r", "t">>, NoObj),
     StrValue(<<" ", " ">>, NoObj),
     StrValue(<<"{", "\"", "l", "e", "v", "e", "l", "\"", ":", "\"", "m", "e", "d", "i", "u", "m", "\"", "}">>, Obj(StrLevel(<<"m", "e", "d", "i", "u", "m">>))),
     StrValue(<<" ", "{", "\"", "l", "e", "v", "e", "l", "\"", ":", "\"", "H", "I", "G", "H", "\"", "}", " ">>, Obj(StrLevel(<<"H", "I", "G", "H">>))),
     StrValue(<<"{", "\"", "l", "e", "v", "e", "l", "\"", ":", " ", "5", "}">>, Obj([type |-> "int", s |-> <<"5">>])),
     StrValue(<<"{", "\"", "a", "\"", ":", "1", "}">>, Obj(NoLevel)),
     StrValue(<<"{", "l", "e", "v", "e", "l", ":", " ", "h", "i", "g", "h", "}">>, NoObj),
     OtherValue}

\* confidence columns, numbers in hundredths: -0.5, 0, 0.55, 0.9, 1.0, 1.01, 1.53,
\* 85.0, 100.0, 250.0; None; True; "0,8"; "abc"; another object
ExplainConfs ==
    {Conf("num", v, TRUE) : v \in {0 - 50, 0, 55, 90, 100, 101, 153, 8500, 10000, 25000}}
    \cup {Conf("none", 0, FALSE), Conf("bool", 100, TRUE), Conf("str", 80, TRUE),
          Conf("str", 0, FALSE), Conf("other", 0, FALSE)}

ExplainRow(value, confidence) ==
    PatternRow(1, "user", "preference", "explain_level", value, confidence)

HabitRow ==
    PatternRow(2, "user", "habit", "tool_usage:search",
               DictValue(NoLevel), Conf("num", 92, TRUE))

\* rows that match only one half of the lookup
NearRows ==
    {PatternRow(3, "user", "preference", "language", DictValue(StrLevel(<<"h", "i", "g", "h">>)),
                Conf("num", 90, TRUE)),
     PatternRow(4, "user", "habit", "explain_level", DictValue(StrLevel(<<"h", "i", "g", "h">>)),
                Conf("num", 90, TRUE))}

\* the lists a caller puts in ctx.patterns
PatternLists ==
    {<<ExplainRow(v, c)>> : v \in ExplainValues, c \in ExplainConfs}
    \cup {<< >>, <<HabitRow>>}
    \cup {<<r>> : r \in NearRows}
    \cup {<<HabitRow, ExplainRow(DictValue(StrLevel(<<"l", "o", "w">>)), Conf("num", 90, TRUE)),
            ExplainRow(DictValue(StrLevel(<<"h", "i", "g", "h">>)), Conf("num", 55, TRUE))>>,
          Repeat(HabitRow, HIGH_VOLUME - 1),
          Repeat(HabitRow, HIGH_VOLUME),
          Append(Repeat(HabitRow, HIGH_VOLUME),
                 ExplainRow(DictValue(StrLevel(<<"m", "e", "d", "i", "u", "m">>)), Conf("num", 8500, TRUE)))}

\* the user_id run_once puts in the context: None or a user
ContextUsers == {"", "u1"}

\* the process after `import api.ml.registry` went well, over a store that holds
\* the events of InitTable and the patterns derived from them
InitML ==
    /\ ctx_patterns \in PatternLists
    /\ ml_clock = 0
    /\ ml_results = << >>
    /\ heap = _safe_default_register(<<EmptyDict>>, [i \in 1..3 |-> "ok"]).heap
    /\ booted = TRUE
    /\ boot_raised = FALSE
    /\ defaults = [i \in 1..3 |-> "ok"]
    /\ returned = << >>
    /\ ops = 0
    /\ last_op = "none"
    /\ last_arg = NoModule
    /\ last_raised = FALSE
    /\ NoRun
    /\ learning_events = InitTable
    /\ clock = Len(learning_events)
    /\ learning_patterns =
          LET ps == _derive_patterns(Rev(InitTable), Len(InitTable) + 1)
          IN {ps[i] : i \in 1..Len(ps)}
    /\ pc = [r \in Requests |-> "idle"]
    /\ endpoint = [r \in Requests |-> "learning"]
    /\ events = [r \in Requests |-> NoEvents]
    /\ patterns = [r \in Requests |-> NoPatterns]
    /\ written = [r \in Requests |-> 0]
    /\ lastWrite = [k \in PatternKeys |-> {}]
    /\ run_user = [r \in Requests |-> ""]
    /\ writers = [k \in PatternKeys |-> << >>]
    /\ DeriveIdle
    /\ ScoreIdle
    /\ DashIdle
    /\ SummaryIdle
    /\ FxIdle

\* ctx = MLContext(user_id=user_id, patterns=patterns); r = reg[name].compute(ctx)
Compute(name, user_id) ==
    /\ Len(ml_results) < MaxCalls
    /\ _registry[name] # NoModule
    /\ LET out == compute(_registry[name], MLContext(user_id, ctx_patterns), ml_clock + 1)
       IN /\ ml_results' = Append(ml_results, [name |-> name, user_id |-> user_id,
                                               patterns |-> ctx_patterns,
                                               result |-> out.result])
          /\ ctx_patterns' = out.patterns
    /\ ml_clock' = ml_clock + 1

NextML ==
    (\E i \in 1..Len(DEFAULT_MODULES), u \in ContextUsers : Compute(DEFAULT_MODULES[i], u))
        /\ UNCHANGED <<pipeVars, deriveVars, scoreVars, dashVars, regVars, sumVars, fxVars>>

SpecML == InitML /\ [][NextML]_vars

-----------------------------------------------------------------------------
(* GET /learning/summary: fetch_events, then aggregate_summary                 *)

\* e.get("event_type") or "unknown"
TypeOf(e) == IF e.event_type = "" THEN "unknown" ELSE e.event_type

\* the tags of e that aggregate_summary counts: stripped, blanks skipped
CountedTags(e) ==
    SelectSeq([i \in 1..Len(e.tags) |-> Strip(e.tags[i])], LAMBDA t : t # "")

RECURSIVE Flatten(_)
Flatten(seqs) == IF seqs = << >> THEN << >> ELSE Head(seqs) \o Flatten(Tail(seqs))

\* the keys of a dict filled by `d[k] = d.get(k, 0) + 1`, in insertion order
RECURSIVE InsertionOrder(_)
InsertionOrder(keys) ==
    IF keys = << >> THEN << >>
    ELSE LET before == InsertionOrder(SubSeq(keys, 1, Len(keys) - 1))
             k == keys[Len(keys)]
         IN IF \E i \in 1..Len(before) : before[i] = k THEN before ELSE Append(before, k)

\* by_type.items() / by_tag.items() after the loop
CountItems(keys) ==
    LET order == InsertionOrder(keys)
    IN [i \in 1..Len(order) |->
           [key |-> order[i],
            count |-> Cardinality({j \in 1..Len(keys) : keys[j] = order[i]})]]

\* a descending sort that turns the order of equal counts around
sorted_by_count_reversed_ties(items) ==
    LET n == Len(items)
        rank(i) == 1 + Cardinality({j \in 1..n :
                        \/ items[j].count > items[i].count
                        \/ items[j].count = items[i].count /\ j > i})
    IN [p \in 1..n |-> items[CHOOSE i \in 1..n : rank(i) = p]]

\* sorted(items, key=lambda x: x[1], reverse=True): stable, so equal counts keep
\* the order of items
sorted_by_count(items) ==
    LET n == Len(items)
        rank(i) == 1 + Cardinality({j \in 1..n :
                        \/ items[j].count > items[i].count
                        \/ items[j].count = items[i].count /\ j < i})
    IN [p \in 1..n |-> items[CHOOSE i \in 1..n : rank(i) = p]]

\* last_ts after the loop, NULL for None
LastTs(evs) ==
    LET ts == {evs[i].created_at : i \in 1..Len(evs)} \ {NULL}
    IN IF ts = {} THEN NULL ELSE CHOOSE t \in ts : \A u \in ts : u <= t

\* last_ts.isoformat(): the text of a timestamp, << >> for None
isoformat(ts) == IF ts = NULL THEN << >> ELSE <<"iso", ts>>

\* aggregate_summary(events): the dict returned, and events as the call leaves it
aggregate_summary(evs) ==
    LET by_type == CountItems([i \in 1..Len(evs) |-> TypeOf(evs[i])])
        by_tag == CountItems(Flatten([i \in 1..Len(evs) |-> CountedTags(evs[i])]))
        top_types == Head_n(sorted_by_count(by_type), 10)
        top_tags == Head_n(sorted_by_count(by_tag), 15)
    IN [summary |-> [total |-> Len(evs),
                     last_created_at |-> isoformat(LastTs(evs)),
                     top_event_types |-> [i \in 1..Len(top_types) |->
                                             [event_type |-> top_types[i].key,
                                              count |-> top_types[i].count]],
                     top_tags |-> [i \in 1..Len(top_tags) |->
                                      [tag |-> top_tags[i].key, count |-> top_tags[i].count]]],
        events |-> evs]

\* rows of the learning_events table when the summary is asked for
MaxEvents == 13

TypeNames == <<"chat", "ask_explain", "tool_call", "correction", "frustration", "feedback",
               "login", "logout", "upload", "search", "error", "">>

TagNames == <<"tool:search", "ask_explain", "pref:explain", "correction", "frustration",
              "anomaly:friction", "topic:crypto", "topic:dev", "ui", "api", "web", "mobile",
              "nl", "en", "beta", "debug", "test">>

\* n rows logged one tick apart: row i has the type at position (i-1)*a mod ka and
\* the tags at positions 2i-2 and 2i-1 mod kb; with pad, rows written by a client
\* that does not strip carry a blank and a padded tag as well
SummaryTable(n, a, ka, kb, pad) ==
    [i \in 1..n |->
        Event(i, IF i % 2 = 0 THEN "u1" ELSE "u2", "s1",
              TypeNames[(((i - 1) * a) % ka) + 1],
              <<TagNames[((2 * i - 2) % kb) + 1], TagNames[((2 * i - 1) % kb) + 1]>>
                  \o (IF pad /\ i % 3 = 0 THEN <<" ", " frustration ">> ELSE << >>),
              "")]

SummaryTables ==
    {SummaryTable(n, a, ka, kb, pad) :
        n \in 0..MaxEvents, a \in {1, 5}, ka \in {1, 3, 12}, kb \in {1, 4, 17},
        pad \in BOOLEAN}

\* query strings of GET /learning/summary
SummaryQueries ==
    {[limit |-> 500, window_minutes |-> 1440, user_id |-> "", event_type |-> "", tag |-> ""],
     [limit |-> 5, window_minutes |-> 1440, user_id |-> "", event_type |-> "", tag |-> ""],
     [limit |-> 500, window_minutes |-> 1440, user_id |-> "u1", event_type |-> "", tag |-> ""],
     [limit |-> 500, window_minutes |-> 1440, user_id |-> "", event_type |-> "chat",
      tag |-> ""],
     [limit |-> 500, window_minutes |-> 1440, user_id |-> "", event_type |-> "",
      tag |-> "frustration"]}

InitSummary ==
    /\ learning_events \in SummaryTables
    /\ clock = Len(learning_events)
    /\ learning_patterns = {}
    /\ pc = [r \in Requests |-> "idle"]
    /\ endpoint = [r \in Requests |-> "learning"]
    /\ events = [r \in Requests |-> NoEvents]
    /\ patterns = [r \in Requests |-> NoPatterns]
    /\ written = [r \in Requests |-> 0]
    /\ lastWrite = [k \in PatternKeys |-> {}]
    /\ run_user = [r \in Requests |-> ""]
    /\ writers = [k \in PatternKeys |-> << >>]
    /\ SummaryIdle
    /\ DeriveIdle
    /\ ScoreIdle
    /\ DashIdle
    /\ RegistryIdle
    /\ MLIdle
    /\ FxIdle

\* learning_summary: events = await fetch_events(...); the response carries
\* aggregate_summary(events)
LearningSummary(q) ==
    /\ summary_out = << >>
    /\ LET evs == fetch_events(learning_events, clock + 1, q.limit, q.window_minutes,
                               q.user_id, "", q.event_type, q.tag)
           out == aggregate_summary(evs)
       IN /\ slice' = out.events
          /\ summary_out' = <<out.summary>>
    /\ clock' = clock + 1
    /\ UNCHANGED <<learning_events, learning_patterns, pc, endpoint, events, patterns,
                   written, lastWrite, run_user, writers>>

NextSummary ==
    (\E q \in SummaryQueries : LearningSummary(q))
        /\ UNCHANGED <<deriveVars, scoreVars, dashVars, regVars, mlVars, fxVars>>

SpecSummary == InitSummary /\ [][NextSummary]_vars

-----------------------------------------------------------------------------
(* score_message: calls of the feature extractor on one input                  *)

MaxScored == 2

FxMessages ==
    {Msg(<<"j", "o", "o", " ", "m", "a", "a", "t", " ", "h", "e", "b", " ", "j", "e", " ", "e", "e", "n", " ", "c", "r", "y", "p", "t", "o", " ", "u", "p", "d", "a", "t", "e", "?">>),
     Msg(<< >>),
     Msg(<<" ", " ">>),
     NoneMsg,
     Msg(<<"B", "T", "C", " ", "a", "l", "l", "-", "i", "n", ",", " ", "5", "0", "0", " ", "e", "u", "r", "o", "!", "!">>),
     Msg(<<"g", "v", "d", " ", "f", "k", " ", "k", "u", "t", " ", "w", "t", "f">>),
     Msg(<<"I", "k", " ", "b", "e", "n", " ", "b", "e", "s", "t", " ", "g", "e", "s", "t", "r", "e", "s", "t", " ", "o", "v", "e", "r", " ", "g", "e", "l", "d", " ", "e", "n", " ", "d", "i", "e", " ", "s", "o", "l", "l", "i", "c", "i", "t", "a", "t", "i", "e", " ", "b", "i", "j", " ", "d", "e", " ", "g", "e", "m", "e", "e", "n", "t", "e", ".">>),
     Msg(<<"j", "o", "o", " ", "m", "a", "a", "t">>),
     Msg(<<"t", "o", "p", " ", "l", "e", "k", "k", "e", "r", " ", "n", "i", "c", "e", "!">>),
     Msg(<<"i", "k", " ", "h", "e", "b", " ", "s", "t", "r", "e", "s", "s", " ", "e", "n", " ", "t", "w", "i", "j", "f", "e", "l", ",", " ", "b", "e", "n", " ", "o", "n", "z", "e", "k", "e", "r">>)}

\* history None and history [] are both << >>
FxHistories ==
    {<< >>,
     <<<<"j", "o", "o", " ", "m", "a", "a", "t">>, <<"H", "e", "b", " ", "j", "e", " ", "e", "e", "n", " ", "c", "r", "y", "p", "t", "o", " ", "u", "p", "d", "a", "t", "e", "?">>>>,
     <<<<"b", "t", "c", " ", "a", "l", "l", "-", "i", "n">>, << >>, <<"T", "O", "P", " ", "l", "e", "k", "k", "e", "r", ",", " ", "n", "i", "c", "e">>>>}

InitFx ==
    /\ fx_in \in [message : FxMessages, history : FxHistories]
    /\ fx_clock = 0
    /\ fx_out = << >>
    /\ PipeIdle
    /\ DeriveIdle
    /\ ScoreIdle
    /\ DashIdle
    /\ RegistryIdle
    /\ MLIdle
    /\ SummaryIdle

\* one call score_message(message, history); utcnow() reads a clock that does
\* not run backwards
ScoreMessage(now) ==
    /\ Len(fx_out) < MaxScored
    /\ fx_out' = Append(fx_out, [message |-> fx_in.message, history |-> fx_in.history,
                                 result |-> score_message(fx_in.message, fx_in.history, now)])
    /\ fx_clock' = now
    /\ UNCHANGED fx_in

NextFx ==
    (\E now \in fx_clock..(fx_clock + 1) : ScoreMessage(now))
        /\ UNCHANGED <<pipeVars, deriveVars, scoreVars, dashVars, regVars, mlVars, sumVars>>

SpecFx == InitFx /\ [][NextFx]_vars

-----------------------------------------------------------------------------
(* Claims about the pattern store (specification Spec) *)

\* the patterns of list ps that carry key k
PatFor(ps, k) == {ps[i] : i \in {j \in 1..Len(ps) : KeyOf(ps[j]) = k}}

\* the patterns request r has already sent to the store
Sent(r) == {patterns[r][i] : i \in 1..written[r]}

\* request r executes one upsert statement in this step
UpsertStep(r) == pc[r] = "upsert" /\ written'[r] = written[r] + 1

\* C1: after any sequence of derive-and-upsert runs the pattern store holds at most
\* one row for each key triple (subject, pattern_type, key).
C1_OneRowPerKey ==
    \A r1, r2 \in learning_patterns : KeyOf(r1) = KeyOf(r2) => r1 = r2

\* two finished runs emitted the same key at different times, and the store has it
C1_Witness ==
    \E r1, r2 \in Requests :
        /\ r1 # r2 /\ pc[r1] = "done" /\ pc[r2] = "done"
        /\ \E p1 \in Sent(r1), p2 \in Sent(r2) :
              /\ KeyOf(p1) = KeyOf(p2) /\ p1 # p2
              /\ RowsOf(learning_patterns, KeyOf(p1)) # {}

\* C2: two derive-and-upsert runs of one deriver over the same events leave exactly
\* one stored row per derived key, and the stored confidence and evidence are those
\* of the first run and of the second run alike.
C2_Idempotent ==
    \A r1, r2 \in Requests :
        (/\ r1 # r2 /\ pc[r1] = "done" /\ pc[r2] = "done"
         /\ endpoint[r1] = endpoint[r2] /\ events[r1] = events[r2])
        => \A p \in Sent(r1) :
              /\ Cardinality(RowsOf(learning_patterns, KeyOf(p))) = 1
              /\ \A row \in RowsOf(learning_patterns, KeyOf(p)) :
                    /\ row.confidence = p.confidence
                    /\ row.evidence = p.evidence
              /\ \E p2 \in Sent(r2) :
                    /\ KeyOf(p2) = KeyOf(p)
                    /\ p2.confidence = p.confidence /\ p2.evidence = p.evidence

\* two runs over the same events have finished, the second derived later than the
\* first, and the store holds the second run's row
C2_Witness ==
    \E r1, r2 \in Requests :
        /\ r1 # r2 /\ pc[r1] = "done" /\ pc[r2] = "done"
        /\ endpoint[r1] = endpoint[r2] /\ events[r1] = events[r2]
        /\ \E p1 \in Sent(r1), p2 \in Sent(r2) :
              /\ KeyOf(p1) = KeyOf(p2) /\ p1.last_seen < p2.last_seen
              /\ p2 \in learning_patterns

\* C3: an upsert on a key that is already stored replaces value, confidence,
\* evidence and last_seen by exactly the statement's values, whatever was stored.
C3_ReplaceOnConflict ==
    [][\A r \in Requests :
          UpsertStep(r) =>
             LET p == patterns[r][written[r] + 1] IN
             RowsOf(learning_patterns, KeyOf(p)) # {}
                => RowsOf(learning_patterns', KeyOf(p)) = {p}]_vars

\* a stored count was overwritten by a different count of a later run
C3_Witness ==
    \E r1, r2 \in Requests :
        /\ r1 # r2
        /\ \E p1 \in Sent(r1), p2 \in Sent(r2) :
              /\ KeyOf(p1) = SearchKey /\ KeyOf(p2) = SearchKey
              /\ p1.value.count # p2.value.count
              /\ p1.last_seen < p2.last_seen
              /\ RowsOf(learning_patterns, SearchKey) = {p2}

\* C4: however the upsert statements of concurrent runs interleave, every key some
\* run has written has exactly one row, and that row is in every column the row of
\* the statement that executed last on that key.
C4_NoLostUpdate ==
    /\ \A k \in PatternKeys :
          IF lastWrite[k] = {}
          THEN RowsOf(learning_patterns, k) = {}
          ELSE RowsOf(learning_patterns, k) = lastWrite[k]
    /\ \A r \in Requests : \A p \in Sent(r) :
          Cardinality(RowsOf(learning_patterns, KeyOf(p))) = 1

\* two runs interleaved: each writes explain_level before tool_usage:search, yet the
\* stored explain_level row is r1's and the stored tool_usage:search row is r2's
C4_Witness ==
    \E r1, r2 \in Requests :
        /\ r1 # r2 /\ pc[r1] = "done" /\ pc[r2] = "done"
        /\ \E e1 \in Sent(r1), s1 \in Sent(r1), e2 \in Sent(r2), s2 \in Sent(r2) :
              /\ KeyOf(e1) = ExplainKey /\ KeyOf(e2) = ExplainKey
              /\ KeyOf(s1) = SearchKey /\ KeyOf(s2) = SearchKey
              /\ e1 # e2 /\ s1 # s2
              /\ e1 \in learning_patterns /\ s2 \in learning_patterns

\* C5: no step deletes a stored pattern: a row leaves the table only by being
\* overwritten under its own key, so the set of stored keys never shrinks and a
\* key whose rule does not qualify keeps its row unchanged.
C5_NeverDeletes ==
    [][\A row \in learning_patterns :
          \/ row \in learning_patterns'
          \/ \E r \in Requests :
                /\ UpsertStep(r)
                /\ KeyOf(patterns[r][written[r] + 1]) = KeyOf(row)
                /\ RowsOf(learning_patterns', KeyOf(row)) # {}]_vars

\* a later run in which the friction rule did not qualify has finished, and the
\* friction row an earlier run stored is still there
C5_Witness ==
    \E r \in Requests :
        /\ pc[r] = "done"
        /\ PatFor(patterns[r], FrictionKey) = {}
        /\ \E p \in Sent(r), row \in learning_patterns :
              /\ KeyOf(row) = FrictionKey
              /\ row.last_seen < p.last_seen
              /\ p \in learning_patterns

-----------------------------------------------------------------------------
(* Claims about the derivation rules (specification SpecDerive) *)

\* how many patterns of the returned list carry key k
Emitted(k) == Cardinality({i \in 1..Len(derived) : KeyOf(derived[i]) = k})

\* the events each rule is stated to count
ExplainEvent(e) ==
    is_type(e, "ask_explain") \/ has_tag(e, "ask_explain") \/ has_tag(e, "pref:explain")
SearchEvent(e) == has_tag(e, "tool:search") \/ e.action = "search"
FrictionEvent(e) ==
    \/ is_type(e, "correction") \/ is_type(e, "frustration")
    \/ has_tag(e, "correction") \/ has_tag(e, "frustration")
    \/ has_tag(e, "anomaly:friction")

\* the latest created_at among the search events of evs, NULL if none has one
LatestSearch(evs) ==
    LET ts == {evs[i].created_at : i \in {j \in 1..Len(evs) : SearchEvent(evs[j])}} \ {NULL}
    IN IF ts = {} THEN NULL ELSE CHOOSE t \in ts : \A u \in ts : u <= t

\* C6: in each deriver the explain-preference rule counts the events of type
\* ask_explain or tagged ask_explain or pref:explain, and emits (user, preference,
\* explain_level) with value {level: high} and confidence
\* min(0.95, 0.55 + (count-4)*0.08) exactly when the count is at least 4.
C6_ExplainRule ==
    deriver # "none" =>
        LET n == Cardinality({i \in 1..Len(batch) : ExplainEvent(batch[i])}) IN
        IF n >= 4
        THEN /\ Emitted(ExplainKey) = 1
             /\ \A p \in PatFor(derived, ExplainKey) :
                   /\ p.value = [level |-> "high"]
                   /\ p.confidence = Min(95, 55 + (n - 4) * 8)
        ELSE Emitted(ExplainKey) = 0

\* C7: in each deriver the search-habit rule counts the events tagged tool:search
\* or with payload action "search", emits (user, habit, tool_usage:search) with
\* value {count: count} and confidence min(0.92, 0.50 + (count-5)*0.07) exactly
\* when the count is at least 5, and its last_seen is the latest created_at of the
\* matching events, the current time only when none of them has a timestamp.
C7_SearchRule ==
    deriver # "none" =>
        LET n == Cardinality({i \in 1..Len(batch) : SearchEvent(batch[i])})
            latest == LatestSearch(batch)
        IN
        IF n >= 5
        THEN /\ Emitted(SearchKey) = 1
             /\ \A p \in PatFor(derived, SearchKey) :
                   /\ p.value = [count |-> n]
                   /\ p.confidence = Min(92, 50 + (n - 5) * 7)
                   /\ p.last_seen = IF latest # NULL THEN latest ELSE batchNow
        ELSE Emitted(SearchKey) = 0

\* C8: in each deriver the high-friction rule counts the events of type correction
\* or frustration or tagged correction, frustration or anomaly:friction, and emits
\* (user, anomaly, interaction:high_friction) with value {count: count} and
\* confidence min(0.90, 0.60 + (count-6)*0.05) exactly when the count is at least 6.
C8_FrictionRule ==
    deriver # "none" =>
        LET n == Cardinality({i \in 1..Len(batch) : FrictionEvent(batch[i])}) IN
        IF n >= 6
        THEN /\ Emitted(FrictionKey) = 1
             /\ \A p \in PatFor(derived, FrictionKey) :
                   /\ p.value = [count |-> n]
                   /\ p.confidence = Min(90, 60 + (n - 6) * 5)
        ELSE Emitted(FrictionKey) = 0

\* the ceiling of each rule, in hundredths
Ceiling(k) == CASE k = ExplainKey -> 95 [] k = SearchKey -> 92 [] k = FrictionKey -> 90

\* C9: every emitted confidence lies in [0, 1] and under its rule's ceiling
\* (0.95, 0.92, 0.90), and one more event in the list never lowers a confidence
\* nor withdraws a pattern.
C9_ConfidenceMonotoneBounded ==
    deriver # "none" =>
        /\ \A i \in 1..Len(derived) :
              /\ derived[i].confidence >= 0 /\ derived[i].confidence <= 100
              /\ derived[i].confidence <= Ceiling(KeyOf(derived[i]))
        /\ \A e \in EventKinds :
              LET more == Derive(deriver, <<e>> \o batch, batchNow) IN
              \A i \in 1..Len(derived) :
                 \E j \in 1..Len(more) :
                    /\ KeyOf(more[j]) = KeyOf(derived[i])
                    /\ more[j].confidence >= derived[i].confidence

\* a list long enough that all three rules sit at their ceilings
C9_Witness ==
    /\ deriver # "none"
    /\ \E i, j, k \in 1..Len(derived) :
          /\ KeyOf(derived[i]) = ExplainKey /\ derived[i].confidence = 95
          /\ KeyOf(derived[j]) = SearchKey /\ derived[j].confidence = 92
          /\ KeyOf(derived[k]) = FrictionKey /\ derived[k].confidence = 90
          /\ derived[i].evidence.count > 9

-----------------------------------------------------------------------------
(* Claims about the composite scorer (specification SpecScore) *)

ModuleCount(st, core) ==
    Cardinality({i \in 1..Len(modules_raw) :
                    /\ ModuleStatus(modules_raw[i]).status = st
                    /\ (ModuleStatus(modules_raw[i]).key \in core_keys) = core})

\* C11: the module-health sub-score of n module statuses is
\* min(35, sum of share * weight * factor), share = 35/n, factor 1 for ok, 0.5 for
\* warn, 0 for off and any other status, weight 1.3 for the core names and 1.0
\* otherwise; an empty list scores 0.  (The score is num/den with den = 20 * n.)
C11_ModuleHealth ==
    scored =>
        LET n == Len(modules_raw)
            sum == 26 * ModuleCount("ok", TRUE) + 20 * ModuleCount("ok", FALSE)
                   + 13 * ModuleCount("warn", TRUE) + 10 * ModuleCount("warn", FALSE)
        IN IF n = 0 THEN modules_score.num = 0
           ELSE /\ modules_score.den = 20 * n
                /\ modules_score.num = Min(35 * 20 * n, 35 * sum)

\* three modules: a core one ok, another one warn, a core one with an unknown
\* status: 35/3 * 1.3 + 35/3 * 0.5 = 21 points
C11_Witness ==
    /\ scored
    /\ modules_raw = <<[key |-> "auth", status |-> "ok"],
                       [key |-> "search", status |-> "warn"],
                       [key |-> "chat_api", status |-> "error"]>>
    /\ modules_score.num = 21 * modules_score.den

\* the text contains the lexicon entry t as a word or phrase of its own
HasWord(text, t) ==
    \E i \in 1..(Len(text) - Len(t) + 1) :
        /\ SubSeq(text, i, i + Len(t) - 1) = t
        /\ (i = 1 \/ text[i - 1] = " ")
        /\ (i + Len(t) - 1 = Len(text) \/ text[i + Len(t)] = " ")

\* the mood matches a lexicon: one of the lexicon's entries is a word of the mood
LexiconHit(last_mood, lexicon) ==
    \E t \in lexicon : HasWord(Lower(StripText(last_mood)), t)

\* the emotion corrections the claim allows for a mood, in tenths of a point
EmotionCorrections(last_mood) ==
    LET pos == LexiconHit(last_mood, positieve_triggers)
        neg == LexiconHit(last_mood, negatieve_triggers)
    IN {c \in {0 - 40, 0, 40} : /\ (c = 40) => pos
                                /\ (c = 0 - 40) => neg
                                /\ (c = 0) => (~pos /\ ~neg)}

\* C12: the self-learning sub-score is clamp[0,50] of 10 if self-learning data
\* exists, plus 30 * clamp[0,10](average) / 10, plus 10 * min(preference count, 10)
\* / 10, plus an emotion correction of +4 when the last mood matches the positive
\* lexicon, -4 when it matches the negative lexicon, 0 when it is absent or
\* unrecognized.  (In tenths of a point, for a count of zero or more preferences.)
C12_SelfLearning ==
    LET sl == SelfLearningStatus(self_learning_raw) IN
    (scored /\ sl.preferences_count >= 0) =>
        \E emo \in EmotionCorrections(sl.last_mood) :
            LET base == IF sl.has_data THEN 100 ELSE 0
                avg == IF sl.avg_score = << >> THEN 0
                       ELSE 3 * Max(0, Min(100, sl.avg_score[1]))
                prefs == 10 * Min(sl.preferences_count, 10)
            IN self_learning_score = Max(0, Min(500, base + avg + prefs + emo))

\* the users of the scored last-session state that have a usable last_action
Timed == {i \in 1..Len(last_session_raw.users) :
             last_session_raw.users[i].last_action.kind = "ok"}

\* the users whose last_action is the most recent
MostRecent == {i \in Timed : \A j \in Timed :
                  last_session_raw.users[j].last_action.at
                      <= last_session_raw.users[i].last_action.at}

\* points for the hours elapsed since a last_action
RecencyPoints(hours) ==
    CASE hours <= 6 -> 13
      [] hours > 6 /\ hours <= 24 -> 10
      [] hours > 24 /\ hours <= 72 -> 7
      [] hours > 72 /\ hours <= 168 -> 4
      [] OTHER -> 0

\* C13: the usage sub-score comes from the user whose last_action is the most
\* recent of all users: at most 6h gives 13, at most 24h 10, at most 72h 7, at
\* most 168h 4, otherwise 0; 2 more points, capped at 15, when that same user's
\* development minutes are at least 60; 0 when no user has a usable last_action.
C13_UsageScore ==
    scored =>
        IF Timed = {} THEN usage_score = 0
        ELSE \E i \in MostRecent :
                LET u == last_session_raw.users[i]
                    bonus == IF u.estimated_dev_minutes >= 60 THEN 2 ELSE 0
                IN usage_score = Min(15, RecencyPoints(scoreNow - u.last_action.at) + bonus)

\* the first user acted 25 hours ago and has 60 development minutes, the second
\* acted 6 hours ago and has none: the score is the second user's 13
C13_Witness ==
    /\ scored
    /\ Len(last_session_raw.users) = 2
    /\ last_session_raw.users[1]
           = [last_action |-> [kind |-> "ok", at |-> scoreNow - 25],
              estimated_dev_minutes |-> 60]
    /\ last_session_raw.users[2]
           = [last_action |-> [kind |-> "ok", at |-> scoreNow - 6],
              estimated_dev_minutes |-> 0]
    /\ usage_score = 13

\* C15: calculate_slimheidsmeter never raises because an input is missing: with
\* the modules list missing or empty, the self-learning map missing or without
\* keys, the last-session map missing, without users or without a usable
\* last_action, it returns a score whose corresponding sub-score is 0.
C15_MissingInputs ==
    /\ ~score_raised
    /\ scored =>
          /\ modules_raw = << >> => modules_score.num = 0
          /\ DOMAIN self_learning_raw = {} => self_learning_score = 0
          /\ Timed = {} => usage_score = 0

-----------------------------------------------------------------------------
(* Claims about the dashboard (specification SpecDash) *)

\* building the self-learning block failed: the summary function is unavailable
\* or raised
BlockFailed == dash_in.summary.kind \in {"unavailable", "raises"}

\* C14 as stated: when building the self-learning block fails, the score the
\* dashboard reports is the composite score computed with an empty self-learning
\* contribution from the same module statuses and last-session data, and the
\* request does not fail.
C14_EmptySelfLearningFallback ==
    (payload # NoPayload /\ BlockFailed) =>
        /\ payload.status = 200
        /\ payload.slimheidsmeter
               = calculate_slimheidsmeter(payload.modules, EmptyBlock,
                                          payload.last_session, dash_in.now).total

\* C14 amended: when building the self-learning block fails, the score the
\* dashboard reports is the module-only score 100 * (ok modules + half the warn
\* modules) / modules, rounded to one decimal, and the request does not fail.
C14_ModuleOnlyFallback ==
    (payload # NoPayload /\ BlockFailed) =>
        LET n == Len(payload.modules)
            ok == Cardinality({i \in 1..n : payload.modules[i].status = "ok"})
            warn == Cardinality({i \in 1..n : payload.modules[i].status = "warn"})
        IN /\ payload.status = 200
           /\ n > 0
           /\ payload.slimheidsmeter = RoundHalfEven(1000 * (2 * ok + warn), 2 * n)

\* the summary function raised while the scorer is loaded and two modules warn:
\* the request returns the module-only score 85.7
C14_Witness ==
    /\ dash_in.summary.kind = "raises"
    /\ dash_in.scorer_loaded
    /\ payload.status = 200
    /\ payload.self_learning.none
    /\ payload.slimheidsmeter = 857

-----------------------------------------------------------------------------
(* Claims about the module registry and run_once (specification SpecRegistry) *)

\* the results of the run that belong to module name
ResultsOf(name) == {i \in 1..Len(run_results) : run_results[i].module = name}

\* C16: when a registered scoring module's compute raises or returns malformed
\* output during a registry-driven run, the failure is caught at the invocation
\* boundary and turned into a result with status error: the run does not abort
\* and the remaining modules are still computed.
C16_ModuleFaultCaught ==
    run_exit # "none" =>
        /\ run_exit \in {"0", "2"}
        /\ \A i \in 1..Len(DEFAULT_MODULES) :
              LET name == DEFAULT_MODULES[i] IN
              _registry[name] # NoModule =>
                  /\ ResultsOf(name) # {}
                  /\ _registry[name].compute \in {"raises", "malformed"} =>
                        \A j \in ResultsOf(name) : run_results[j].status = "error"

\* C17: building the default registry never raises: a default module whose import
\* or factory throws is skipped, every other default module is registered under
\* its name, and the registry is usable even when no module could be registered.
C17_DefaultRegistryBuilds ==
    booted =>
        /\ ~boot_raised
        /\ Len(heap) >= RegistryRef
        /\ ops = 0 =>
              \A i \in 1..Len(DefaultFactories) :
                  _registry[DefaultFactories[i].name.s]
                      = IF defaults[i] = "ok" THEN DefaultFactories[i] ELSE NoModule

\* the first default module failed to import and the factory of the third threw:
\* the second alone is registered, and get_registry() has returned that map
C17_Witness ==
    /\ booted
    /\ defaults = <<"import_raises", "ok", "factory_raises">>
    /\ _registry = [EmptyDict EXCEPT !["explain_preference_score"] = ExplainPreferenceScore]
    /\ Len(returned) = 1
    /\ heap[returned[1]] = _registry
    /\ ops = 1

\* a call of register(): a step that counts one more call and records register
RegisterCall == ops' = ops + 1 /\ last_op' = "register"

\* C18: register(module) fails with an error when the module's name is empty or is
\* not a string, and in that case the registry's contents are unchanged.
C18_RegisterRejectsBadName ==
    [][(RegisterCall /\ (last_arg'.name.type # "str" \/ last_arg'.name.s = ""))
           => (last_raised' /\ _registry' = _registry)]_vars

\* register() of a module with an empty name has raised on a registry that holds
\* the three default modules
C18_Witness ==
    /\ last_op = "register"
    /\ last_arg.name = Str("")
    /\ last_raised
    /\ \A i \in 1..Len(DefaultFactories) :
          _registry[DefaultFactories[i].name.s] = DefaultFactories[i]

\* C19: get_registry() returns a snapshot: modifying the returned map never changes
\* what later get_registry() calls return, and a register() performed after the
\* call does not change a map returned earlier.
C19_SnapshotIsolated ==
    [][/\ (ops' = ops + 1 /\ last_op' = "modify") => _registry' = _registry
       /\ RegisterCall =>
             \A i \in 1..Len(returned) : heap'[returned[i]] = heap[returned[i]]]_vars

\* a caller deleted dummy_score from the map it got; then register() bound the
\* name to another module: the returned map has neither
C19_Witness ==
    /\ Len(returned) = 1
    /\ heap[returned[1]]["dummy_score"] = NoModule
    /\ last_op = "register"
    /\ ~last_raised
    /\ _registry["dummy_score"] = last_arg
    /\ heap[returned[1]]["explain_preference_score"] = ExplainPreferenceScore

\* C20: the module registry is write-once: once the startup registration of the
\* default modules has finished, no operation changes the registry's contents, and
\* a name that is registered is never rebound to a different module.
C20_WriteOnce ==
    [][booted => \A n \in Names : _registry'[n] = _registry[n]]_vars

-----------------------------------------------------------------------------
(* Claims about the two derivers side by side (specification SpecDerive) *)

\* what the claim compares of a returned list: key triple, value and confidence
Emission(ps) ==
    {[key |-> KeyOf(ps[i]), value |-> ps[i].value, confidence |-> ps[i].confidence] :
        i \in 1..Len(ps)}

\* C27: for every batch of events, derive_patterns of api.learning.aggregator and
\* _derive_patterns of api.routes.events return patterns with the same key triples,
\* the same values and the same confidences.
C27_DeriversEquivalent ==
    deriver # "none" =>
        /\ Emission(derived) = Emission(derive_patterns(batch, batchNow))
        /\ Emission(derived) = Emission(_derive_patterns(batch, batchNow))

-----------------------------------------------------------------------------
(* Claims about derive runs of different users (specification Spec) *)

\* the upsert statement request r is about to execute
Statement(r) == patterns[r][written[r] + 1]

\* the user_id filter of the run that last wrote key k, "" if none or unfiltered
LastWriter(k) == IF writers[k] = << >> THEN "" ELSE writers[k][Len(writers[k])]

\* C28 as stated: a derive run restricted by its user_id filter to user B's events
\* never creates, overwrites or changes a pattern that an earlier derive run stored
\* from user A's events.
C28_UserIsolation ==
    [][\A r \in Requests :
          (UpsertStep(r) /\ run_user[r] # "" /\ LastWriter(KeyOf(Statement(r))) # ""
              /\ LastWriter(KeyOf(Statement(r))) # run_user[r])
          => RowsOf(learning_patterns', KeyOf(Statement(r)))
                = RowsOf(learning_patterns, KeyOf(Statement(r)))]_vars

\* C28 amended: the store keeps one row per (subject, pattern_type, key) and every
\* derived pattern has subject user, so a derive run restricted to user B's events
\* replaces the row of each key triple it derives, also when an earlier run stored
\* that row from user A's events; it creates, overwrites or changes no row of any
\* other key triple.
C28_IsolatedByKeyOnly ==
    [][\A r \in Requests :
          (UpsertStep(r) /\ run_user[r] # "")
          => /\ Statement(r).subject = "user"
             /\ RowsOf(learning_patterns', KeyOf(Statement(r))) = {Statement(r)}
             /\ \A k \in PatternKeys \ {KeyOf(Statement(r))} :
                   RowsOf(learning_patterns', k) = RowsOf(learning_patterns, k)]_vars

\* a key written by a run for one user and then by a run for another user, whose
\* row is now the second run's, while a row of another key is stored as well
C28_Witness ==
    \E k \in PatternKeys :
       /\ Len(writers[k]) >= 2
       /\ writers[k][Len(writers[k]) - 1] # ""
       /\ LastWriter(k) # ""
       /\ writers[k][Len(writers[k]) - 1] # LastWriter(k)
       /\ RowsOf(learning_patterns, k) = lastWrite[k]
       /\ \E k2 \in PatternKeys \ {k} : RowsOf(learning_patterns, k2) # {}

-----------------------------------------------------------------------------
(* Claims about the mood labels of the self-learning filter (specification SpecScore) *)

\* the correction the claim gives each label of the filter, in tenths of a point
FilterMoodCorrection(label) ==
    CASE label = <<"p", "o", "s", "i", "t", "i", "e", "f">> -> 40
      [] label = <<"n", "e", "g", "a", "t", "i", "e", "f">> -> 0 - 40
      [] OTHER -> 0

\* C30: for each mood label the self-learning filter records as a user's last mood
\* (positief, negatief, neutraal), the composite scorer's emotion correction is +4
\* for positief, -4 for negatief and 0 for neutraal.
C30_FilterMoodCorrection ==
    LET sl == SelfLearningStatus(self_learning_raw) IN
    (scored /\ sl.preferences_count >= 0
        /\ \E p \in Prompts : sl.last_mood = _detect_mood(p)) =>
        LET base == IF sl.has_data THEN 100 ELSE 0
            avg == IF sl.avg_score = << >> THEN 0
                   ELSE 3 * Max(0, Min(100, sl.avg_score[1]))
            prefs == 10 * Min(sl.preferences_count, 10)
        IN self_learning_score
              = Max(0, Min(500, base + avg + prefs + FilterMoodCorrection(sl.last_mood)))

-----------------------------------------------------------------------------
(* Claims about the average handed to the scorer (specification SpecDash) *)

\* C29: the avg_score that the dashboard's self-learning block hands to
\* calculate_slimheidsmeter lies in the 0..10 range over which the self-learning
\* sub-score scales linearly: for every stored self-learning state, the average of
\* the per-user scores computed by get_global_self_learning_summary is at most 10.
C29_AvgScoreInScorerRange ==
    (payload.status = 200 /\ ~payload.self_learning.none
        /\ payload.self_learning.block.has_data) =>
        /\ payload.self_learning.block.avg_score[1] >= 0
        /\ payload.self_learning.block.avg_score[1] <= 100

-----------------------------------------------------------------------------
(* Claims about the reference modules (specification SpecML) *)

\* what a result says beyond its timestamp: score, status and flags
Verdict(r) == [score |-> r.score, status |-> r.status, flags |-> r.flags]

\* C21: compute(context) of each reference module is side-effect-free: it leaves
\* the context's pattern list, the module registry, the event store and the
\* pattern store unchanged, and its score, status and flags depend only on the
\* context's patterns (neither on the time of the call nor on the user).
C21_ComputeSideEffectFree ==
    [][ml_results' # ml_results =>
          /\ ctx_patterns' = ctx_patterns
          /\ heap' = heap
          /\ learning_events' = learning_events
          /\ learning_patterns' = learning_patterns
          /\ \A i \in 1..Len(ml_results) :
                LET new == ml_results'[Len(ml_results')] IN
                (ml_results[i].name = new.name /\ ml_results[i].patterns = new.patterns)
                    => Verdict(ml_results[i].result) = Verdict(new.result)]_vars

\* the explain module ran twice on a list holding its pattern, for different
\* users and at different times, over a populated registry and populated stores
C21_Witness ==
    /\ Len(ml_results) = 2
    /\ ml_results[1].name = "explain_preference_score"
    /\ ml_results[2].name = "explain_preference_score"
    /\ ml_results[1].user_id # ml_results[2].user_id
    /\ ml_results[1].result.computed_at_utc # ml_results[2].result.computed_at_utc
    /\ ml_results[2].result.status = "ok"
    /\ ml_results[2].result.score > 0
    /\ ctx_patterns # << >>
    /\ learning_patterns # {} /\ learning_events # << >>
    /\ _registry["explain_preference_score"] # NoModule

\* the base the claim gives a level, in tenths (no base for other levels)
ClaimBase(level) ==
    CASE level = <<"h", "i", "g", "h">> -> <<10>>
      [] level = <<"m", "e", "d", "i", "u", "m">> -> <<6>>
      [] level = <<"l", "o", "w">> -> <<2>>
      [] OTHER -> << >>

\* the level of a pattern whose value states one plainly: {"level": text} or text
PlainLevel(value) ==
    IF value.kind = "dict" /\ value.obj.level.type = "str" THEN value.obj.level.s
    ELSE IF value.kind = "str" /\ ~value.obj.ok THEN value.s
    ELSE << >>

\* C22: ExplainPreferenceScore.compute: when the context holds no pattern with
\* pattern_type preference and key explain_level the result has status warn and
\* score 0.0; otherwise the pattern's confidence is normalized (a value above 1 is
\* divided by 100, then clamped to [0,1]), its level is mapped to a base of 1.0 for
\* high, 0.6 for medium, 0.2 for low, and the score is round(base * confidence, 4),
\* which lies in [0,1].  (Score in units of 0.0001, confidence in hundredths.)
C22_ExplainPreferenceScore ==
    \A n \in 1..Len(ml_results) :
        ml_results[n].name = "explain_preference_score" =>
            LET ps == ml_results[n].patterns
                r == ml_results[n].result
                matches == {i \in 1..Len(ps) : /\ ps[i].pattern_type = "preference"
                                               /\ ps[i].key = "explain_level"}
            IN IF matches = {}
               THEN r.status = "warn" /\ r.score = 0
               ELSE /\ r.score >= 0 /\ r.score <= 10000
                    /\ \E i \in matches :
                          LET c == ps[i].confidence
                              base == ClaimBase(PlainLevel(ps[i].value))
                              divided == IF c.v > 100 THEN c.v ELSE 100 * c.v
                              conf == Max(0, Min(10000, divided))
                          IN (c.kind = "num" /\ base # << >>)
                                => r.score = RoundHalfEven(base[1] * conf, 10)

\* a pattern with level medium and confidence 1.53 is read as 1.53 percent and
\* scores round(0.6 * 0.0153, 4) = 0.0092
C22_Witness ==
    \E n \in 1..Len(ml_results) :
       /\ ml_results[n].name = "explain_preference_score"
       /\ ml_results[n].patterns
             = <<ExplainRow(DictValue(StrLevel(<<"m", "e", "d", "i", "u", "m">>)), Conf("num", 153, TRUE))>>
       /\ ml_results[n].result.status = "ok"
       /\ ml_results[n].result.score = 92

-----------------------------------------------------------------------------
(* Claims about the summary (specification SpecSummary) *)

\* how often key k occurs in the list keys, and where first
Occurrences(keys, k) == Cardinality({j \in 1..Len(keys) : keys[j] = k})
FirstAt(keys, k) == CHOOSE j \in 1..Len(keys) : keys[j] = k /\ \A i \in 1..(j - 1) : keys[i] # k

\* top lists the (at most) n most frequent keys of the list keys with their counts,
\* most frequent first, equal counts in the order of their first occurrence
IsTop(top, keys, n) ==
    /\ Len(top) = Min(n, Cardinality({keys[j] : j \in 1..Len(keys)}))
    /\ \A i \in 1..Len(top) :
          /\ \E j \in 1..Len(keys) : keys[j] = top[i].key
          /\ top[i].count = Occurrences(keys, top[i].key)
    /\ \A i, j \in 1..Len(top) :
          i < j => \/ top[i].count > top[j].count
                   \/ /\ top[i].count = top[j].count
                      /\ FirstAt(keys, top[i].key) < FirstAt(keys, top[j].key)
    /\ \A k \in {keys[j] : j \in 1..Len(keys)} \ {top[i].key : i \in 1..Len(top)} :
          \A i \in 1..Len(top) :
             \/ top[i].count > Occurrences(keys, k)
             \/ /\ top[i].count = Occurrences(keys, k)
                /\ FirstAt(keys, top[i].key) < FirstAt(keys, k)

\* C23: aggregate_summary over a fetched slice of events returns total = the number
\* of events, the most recent created_at of the slice (null when there is none), at
\* most the 10 most frequent event types and at most the 15 most frequent tags, each
\* list in descending order of count with equal counts ordered by first occurrence
\* in the slice; it does not modify the events or any store.
C23_AggregateSummary ==
    [][summary_out' # summary_out =>
          LET sum == summary_out'[1]
              evs == fetch_events(learning_events, clock', 500, 1440, "", "", "", "")
              types == [i \in 1..Len(slice') |-> TypeOf(slice'[i])]
              tags == Flatten([i \in 1..Len(slice') |-> CountedTags(slice'[i])])
          IN /\ \A i \in 1..Len(slice') : \E j \in 1..Len(evs) : slice'[i] = evs[j]
             /\ learning_events' = learning_events
             /\ learning_patterns' = learning_patterns
             /\ sum.total = Len(slice')
             /\ IF slice' = << >> THEN sum.last_created_at = << >>
                ELSE /\ sum.last_created_at = isoformat(slice'[1].created_at)
                     /\ \A i \in 1..Len(slice') :
                           slice'[i].created_at <= slice'[1].created_at
             /\ Len(sum.top_event_types) <= 10
             /\ Len(sum.top_tags) <= 15
             /\ IsTop([i \in 1..Len(sum.top_event_types) |->
                          [key |-> sum.top_event_types[i].event_type,
                           count |-> sum.top_event_types[i].count]], types, 10)
             /\ IsTop([i \in 1..Len(sum.top_tags) |->
                          [key |-> sum.top_tags[i].tag, count |-> sum.top_tags[i].count]],
                      tags, 15)]_vars

\* a slice with more than 10 event types and more than 15 tags, with equal counts
\* on both sides of each cut
C23_Witness ==
    /\ summary_out # << >>
    /\ Cardinality({TypeOf(slice[i]) : i \in 1..Len(slice)}) > 10
    /\ Cardinality({t \in {TagNames[i] : i \in 1..Len(TagNames)} :
                       \E i \in 1..Len(slice) : has_tag(slice[i], t)}) > 15
    /\ Len(summary_out[1].top_event_types) = 10
    /\ Len(summary_out[1].top_tags) = 15
    /\ summary_out[1].top_event_types[1].count > summary_out[1].top_event_types[10].count
    /\ summary_out[1].top_tags[1].count > summary_out[1].top_tags[15].count
    /\ summary_out[1].top_tags[14].count = summary_out[1].top_tags[15].count

-----------------------------------------------------------------------------
(* Claim C24: score_message is deterministic: two calls with the same          *)
(* (message, history), made at any two times, return identical feature vectors *)
(* in every field of emotion, intent, behavior and raw.                        *)

\* C24: any two logged calls with the same message and history returned the
\* same result, the raw statistics with their timestamp included.
C24_ScoreMessageDeterministic ==
    \A i \in 1..Len(fx_out) : \A j \in 1..Len(fx_out) :
        (fx_out[i].message = fx_out[j].message /\ fx_out[i].history = fx_out[j].history)
            => fx_out[i].result = fx_out[j].result

-----------------------------------------------------------------------------
(* Claim C25: score_message never raises: for an empty message and for a       *)
(* missing message, with or without history, it returns emotion label          *)
(* onbekend, intent label smalltalk and every numeric score of emotion, intent *)
(* and behavior equal to 0.                                                    *)

MinimumSignal(result) ==
    /\ ~result.raised
    /\ result.emotion.label = "onbekend"
    /\ result.intent.label = "smalltalk"
    /\ result.emotion.confidence = 0 /\ result.emotion.energy = 0 /\ result.emotion.stress = 0
    /\ result.intent.confidence = 0
    /\ result.behavior.importance = 0 /\ result.behavior.novelty = 0
    /\ result.behavior.habit_strength = 0 /\ result.behavior.risk = 0

\* C25: no logged call raised, and every logged call on the empty message or on
\* None returned the minimum-signal defaults.
C25_NeverRaisesMinimumDefaults ==
    \A i \in 1..Len(fx_out) :
        /\ ~fx_out[i].result.raised
        /\ fx_out[i].message \in {Msg(<< >>), NoneMsg} => MinimumSignal(fx_out[i].result)

-----------------------------------------------------------------------------
(* Claim C26: for the message "joo maat heb je een crypto update?" with empty  *)
(* history, score_message returns intent.label = crypto and                    *)
(* raw.contains_crypto = true.                                                 *)

\* C26: every logged call on that message with the empty history has intent
\* label crypto and contains_crypto set.
C26_CryptoUpdateScenario ==
    \A i \in 1..Len(fx_out) :
        (fx_out[i].message = Msg(<<"j", "o", "o", " ", "m", "a", "a", "t", " ", "h", "e", "b", " ", "j", "e", " ", "e", "e", "n", " ", "c", "r", "y", "p", "t", "o", " ", "u", "p", "d", "a", "t", "e", "?">>)
         /\ fx_out[i].history = << >>)
            => /\ fx_out[i].result.intent.label = "crypto"
               /\ fx_out[i].result.raw.contains_crypto

=============================================================================
